---- MODULE Spec2Model ----
(***************************************************************************)
(* OpenAPI -> TypeScript client generator.                                 *)
(*                                                                         *)
(* Three parts of the program are modelled, each under its own             *)
(* specification over the same variables:                                  *)
(*   SpecSynth   OpenAPIParser.resolveSchema and                           *)
(*               TypeScriptClientGenerator.schemaToType over a registry    *)
(*   SpecBuild   OpenAPIParser.extractEndpoints over a document's paths    *)
(*   SpecClient  the run-time request path of the emitted client           *)
(*               (endpoint method + internalFetch)                         *)
(*                                                                         *)
(* A string is a sequence of tokens; concatenation is \o.  A JSON object   *)
(* whose key order matters is a sequence of [key, value] entries.          *)
(***************************************************************************)
EXTENDS Integers, Sequences, FiniteSets, TLC

VARIABLES
    \* the generator side
    spec,       \* the parser's OpenAPI document (components.schemas, paths)
    schemas,    \* the parser's Map name -> schema, in insertion order
    op,         \* the generator/parser operation that ran last
    arg,        \* its argument(s)
    ret,        \* what it returned
    \* the fields of an instance of the emitted client class
    apiKey, bearerToken, requestInterceptors, responseInterceptors,
    maxRetries, retryDelay,
    \* one call of an emitted endpoint method, through internalFetch
    pc,         \* where the call stands
    request,    \* internalFetch's `request`
    idx,        \* position of the interceptor loop under way
    attempt,    \* the retry loop's `attempt`
    lastError,  \* the retry loop's `lastError`
    data,       \* `processedData`
    outcome,    \* how the call ended, as its caller sees it
    \* what the call did, as its environment sees it
    registered, \* the interceptors in the order they were added
    reqCalls,   \* request interceptor invocations: id, input, output
    respCalls,  \* response interceptor invocations of the current attempt
    sent,       \* the requests handed to fetch, one per network attempt
    sleeps,     \* the delays handed to setTimeout
    raised      \* the failure raised last

genVars    == <<spec, schemas, op, arg, ret>>
clientVars == <<apiKey, bearerToken, requestInterceptors, responseInterceptors,
                maxRetries, retryDelay>>
callVars   == <<pc, request, idx, attempt, lastError, data, outcome>>
logVars    == <<registered, reqCalls, respCalls, sent, sleeps, raised>>
vars == <<genVars, clientVars, callVars, logVars>>

(***************************************************************************)
(* Bounds                                                                  *)
(***************************************************************************)
\* depth of the JavaScript call stack available to schemaToType; a call
\* nested deeper raises RangeError (maximum call stack size exceeded)
MaxStack == 6

\* keys (operations and others) a modelled path item declares at most
MaxKeys == 2

\* interceptors (request and response together) added to a client at most
MaxInterceptors == 3

\* characters of a modelled operationId or title at most
MaxNameLen == 4

\* response statuses a modelled operation declares at most
MaxResponses == 3

\* parameters a modelled endpoint carries at most
MaxParams == 3

\* calls of generate() on one generator at most
MaxCalls == 3

(***************************************************************************)
(* Program constants                                                       *)
(***************************************************************************)
\* private maxRetries: number = 3; private retryDelay: number = 1000
DefaultMaxRetries == 3
DefaultRetryDelay == 1000
\* the status of an ApiError whose failure carries none
FallbackStatus == 500

(***************************************************************************)
(* Strings and ordered maps                                                *)
(***************************************************************************)
RefPrefix == "#/components/schemas/"

\* String.prototype.replace(pattern, '') with a string pattern: the first
\* occurrence of the pattern is removed, wherever it stands
RECURSIVE replaceFirst(_, _)
replaceFirst(s, pat) ==
    IF s = <<>> THEN <<>>
    ELSE IF Head(s) = pat THEN Tail(s)
    ELSE <<Head(s)>> \o replaceFirst(Tail(s), pat)

\* Array.prototype.join over strings
RECURSIVE join(_, _)
join(parts, sep) ==
    IF parts = <<>> THEN <<>>
    ELSE IF Len(parts) = 1 THEN parts[1]
    ELSE parts[1] \o sep \o join(Tail(parts), sep)

\* Map.prototype.has / get over an ordered map (sequence of entries)
MapHas(m, k) == \E i \in 1..Len(m) : m[i].key = k
MapGet(m, k) == m[CHOOSE i \in 1..Len(m) : m[i].key = k].value

\* Map.prototype.set: a new key is appended, an old key keeps its place
MapSet(m, k, v) ==
    IF MapHas(m, k)
    THEN [i \in 1..Len(m) |-> IF m[i].key = k THEN [key |-> k, value |-> v] ELSE m[i]]
    ELSE Append(m, [key |-> k, value |-> v])

(***************************************************************************)
(* Schemas (types.ts Schema): records carrying the JSON keys present       *)
(***************************************************************************)
IsRef(s) == "ref" \in DOMAIN s

\* '#/components/schemas/<n>' and a $ref that is the bare name already
RefTo(n)   == [ref |-> <<RefPrefix>> \o n]
BareRef(n) == [ref |-> n]
StrT   == [type |-> "string"]
EnumT  == [type |-> "string", enum |-> <<"b", "a">>]
NumT   == [type |-> "number"]
IntT   == [type |-> "integer"]
BoolT  == [type |-> "boolean"]
MapT   == [type |-> "object"]
NullT  == [type |-> "null"]
ArrT(s) == [type |-> "array", items |-> s]
Prop(k, s) == [key |-> k, value |-> s]
ObjT(ps) == [type |-> "object", properties |-> ps]
ObjReqT(ps, req) == [type |-> "object", properties |-> ps, required |-> req]
OneOfT(ms) == [oneOf |-> ms]
AllOfT(ms) == [allOf |-> ms]
AnyOfT(ms) == [anyOf |-> ms]

(***************************************************************************)
(* OpenAPIParser                                                           *)
(***************************************************************************)
\* loadSchemas: every entry of components.schemas is set into the Map, in
\* the document's order; a document without components.schemas loads nothing
RECURSIVE loadSchemasFrom(_, _)
loadSchemasFrom(entries, m) ==
    IF entries = <<>> THEN m
    ELSE loadSchemasFrom(Tail(entries), MapSet(m, Head(entries).key, Head(entries).value))

loadSchemas(doc) ==
    IF "schemas" \in DOMAIN doc THEN loadSchemasFrom(doc.schemas, <<>>) ELSE <<>>

\* mutant: the registry is asked for the whole reference string
schemaNameOf_Unstripped(ref) == ref

\* the bare schema name of a $ref string
schemaNameOf(ref) == replaceFirst(ref, RefPrefix)

\* resolveSchema: one lookup of a reference's bare name; anything else, and
\* a reference to an unregistered name, is returned as it is
resolveSchema(m, schema) ==
    IF IsRef(schema)
    THEN LET schemaName == schemaNameOf(schema.ref)
         IN IF MapHas(m, schemaName) THEN MapGet(m, schemaName) ELSE schema
    ELSE schema

(***************************************************************************)
(* OpenAPIParser.extractEndpoints                                          *)
(*                                                                         *)
(* A path, an operationId: a sequence of one-character strings.  A path    *)
(* item: the entries of its JSON object in declared order, keyed by "get", *)
(* "post", ..., "parameters" or any other key a document may carry.        *)
(***************************************************************************)
LowerCase == <<"a","b","c","d","e","f","g","h","i","j","k","l","m",
               "n","o","p","q","r","s","t","u","v","w","x","y","z">>
UpperCase == <<"A","B","C","D","E","F","G","H","I","J","K","L","M",
               "N","O","P","Q","R","S","T","U","V","W","X","Y","Z">>

IndexIn(seq, c) == CHOOSE i \in 1..Len(seq) : seq[i] = c
IsIn(seq, c) == \E i \in 1..Len(seq) : seq[i] = c

toUpperCaseChar(c) == IF IsIn(LowerCase, c) THEN UpperCase[IndexIn(LowerCase, c)] ELSE c
toLowerCaseChar(c) == IF IsIn(UpperCase, c) THEN LowerCase[IndexIn(UpperCase, c)] ELSE c
toUpperCase(s) == [i \in 1..Len(s) |-> toUpperCaseChar(s[i])]
toLowerCase(s) == [i \in 1..Len(s) |-> toLowerCaseChar(s[i])]

\* String.prototype.split(sep) for a one-character separator
RECURSIVE splitAcc(_, _, _)
splitAcc(s, sep, cur) ==
    IF s = <<>> THEN <<cur>>
    ELSE IF Head(s) = sep THEN <<cur>> \o splitAcc(Tail(s), sep, <<>>)
    ELSE splitAcc(Tail(s), sep, Append(cur, Head(s)))

split(s, sep) == splitAcc(s, sep, <<>>)

\* parts.filter(Boolean): the empty strings are dropped
RECURSIVE filterNonEmpty(_)
filterNonEmpty(parts) ==
    IF parts = <<>> THEN <<>>
    ELSE (IF Head(parts) # <<>> THEN <<Head(parts)>> ELSE <<>>) \o filterNonEmpty(Tail(parts))

\* part.replace(/[{}]/g, ''): every brace is dropped
RECURSIVE stripBraces(_)
stripBraces(part) ==
    IF part = <<>> THEN <<>>
    ELSE (IF Head(part) \in {"{", "}"} THEN <<>> ELSE <<Head(part)>>) \o stripBraces(Tail(part))

\* Array.prototype.join('')
RECURSIVE concat(_)
concat(parts) == IF parts = <<>> THEN <<>> ELSE Head(parts) \o concat(Tail(parts))

\* the characters of an HTTP method name
methodChars(method) ==
    CASE method = "get"    -> <<"g","e","t">>
      [] method = "post"   -> <<"p","o","s","t">>
      [] method = "put"    -> <<"p","u","t">>
      [] method = "patch"  -> <<"p","a","t","c","h">>
      [] method = "delete" -> <<"d","e","l","e","t","e">>

\* mutant: the whole part is uppercased
capitalize_Whole(part) == toUpperCase(part)

\* part.charAt(0).toUpperCase() + part.slice(1)
capitalize(part) ==
    IF part = <<>> THEN <<>> ELSE <<toUpperCaseChar(Head(part))>> \o Tail(part)

generateOperationId(method, path) ==
    LET parts == filterNonEmpty(split(path, "/"))
        pathParts == [i \in 1..Len(parts) |-> capitalize(stripBraces(parts[i]))]
    IN toLowerCase(methodChars(method)) \o concat(pathParts)

\* mutant: the methods are looked for in alphabetical order
methods_Alphabetical == <<"delete", "get", "patch", "post", "put">>

\* the HTTP methods extractEndpoints looks for, in the order it looks
methods == <<"get", "post", "put", "patch", "delete">>

\* Object.entries of a JSON object whose keys are not array indices:
\* the entries in the order the document declares them
objectEntries(obj) == obj

\* mutant: an operation-level parameter replaces the path-level parameter
\* of the same name
allParameters_Dedup(pathItem, operation) ==
    LET shared == IF MapHas(pathItem, "parameters") THEN MapGet(pathItem, "parameters") ELSE <<>>
        own == IF "parameters" \in DOMAIN operation THEN operation.parameters ELSE <<>>
        Overridden(q) == \E j \in 1..Len(own) : own[j].name = q.name
    IN SelectSeq(shared, LAMBDA q : ~Overridden(q)) \o own

\* pathItem.parameters || [] followed by operation.parameters || []
allParameters(pathItem, operation) ==
    (IF MapHas(pathItem, "parameters") THEN MapGet(pathItem, "parameters") ELSE <<>>)
    \o (IF "parameters" \in DOMAIN operation THEN operation.parameters ELSE <<>>)

\* operation.operationId || this.generateOperationId(method, path)
operationIdOf(operation, method, path) ==
    IF "operationId" \in DOMAIN operation /\ operation.operationId # <<>>
    THEN operation.operationId
    ELSE generateOperationId(method, path)

\* a key copied from the operation: kept when the operation has it
Copied(operation, k) ==
    IF k \in DOMAIN operation THEN k :> operation[k] ELSE [x \in {} |-> x]

\* the Endpoint pushed for one declared operation
endpointOf(path, pathItem, method) ==
    LET operation == MapGet(pathItem, method)
    IN [ method |-> method,
         path |-> path,
         operationId |-> operationIdOf(operation, method, path),
         parameters |-> allParameters(pathItem, operation),
         responses |-> operation.responses ]
       @@ Copied(operation, "summary") @@ Copied(operation, "description")
       @@ Copied(operation, "requestBody") @@ Copied(operation, "tags")

\* the inner loop: the methods of one path entry, `continue` on the absent
RECURSIVE endpointsOfPath(_, _, _)
endpointsOfPath(path, pathItem, ms) ==
    IF ms = <<>> THEN <<>>
    ELSE (IF MapHas(pathItem, Head(ms))
          THEN <<endpointOf(path, pathItem, Head(ms))>> ELSE <<>>)
         \o endpointsOfPath(path, pathItem, Tail(ms))

\* the outer loop over Object.entries(this.spec.paths)
RECURSIVE endpointsOfPaths(_)
endpointsOfPaths(entries) ==
    IF entries = <<>> THEN <<>>
    ELSE endpointsOfPath(Head(entries).key, Head(entries).value, methods)
         \o endpointsOfPaths(Tail(entries))

extractEndpoints(doc) == endpointsOfPaths(objectEntries(doc.paths))

(***************************************************************************)
(* TypeScriptClientGenerator: names.  A name, a title: a sequence of       *)
(* one-character strings.                                                  *)
(***************************************************************************)
Digits == <<"0","1","2","3","4","5","6","7","8","9">>
isLower(c) == IsIn(LowerCase, c)
isUpper(c) == IsIn(UpperCase, c)
isDigit(c) == IsIn(Digits, c)
isAlphanumeric(c) == isLower(c) \/ isUpper(c) \/ isDigit(c)

\* .replace(/[^a-zA-Z0-9]/g, '_')
underscoreNonAlphanumerics(s) ==
    [i \in 1..Len(s) |-> IF isAlphanumeric(s[i]) THEN s[i] ELSE "_"]

\* mutant: a leading digit is left as it is
prefixLeadingDigit_Kept(s) == s

\* .replace(/^[0-9]/, '_$&')
prefixLeadingDigit(s) ==
    IF s # <<>> /\ isDigit(Head(s)) THEN <<"_">> \o s ELSE s

\* .replace(/([a-z])([A-Z])/g, '$1_$2'): matches are found left to right and
\* the search goes on after the end of each match
RECURSIVE splitCamelCase(_)
splitCamelCase(s) ==
    IF Len(s) < 2 THEN s
    ELSE IF isLower(s[1]) /\ isUpper(s[2])
    THEN <<s[1], "_", s[2]>> \o splitCamelCase(Tail(Tail(s)))
    ELSE <<s[1]>> \o splitCamelCase(Tail(s))

sanitizeMethodName(name) ==
    toLowerCase(splitCamelCase(prefixLeadingDigit(underscoreNonAlphanumerics(name))))

\* .replace(/[^a-zA-Z0-9]/g, '')
removeNonAlphanumerics(s) == SelectSeq(s, isAlphanumeric)

\* mutant: the first character is left as it is
upperFirst_Kept(s) == s

\* .replace(/^[a-z]/, (c) => c.toUpperCase())
upperFirst(s) ==
    IF s # <<>> /\ isLower(Head(s)) THEN <<toUpperCaseChar(Head(s))>> \o Tail(s) ELSE s

ClientSuffix == <<"C","l","i","e","n","t">>

\* generateClassName(): from the document's info.title
generateClassName(doc) ==
    upperFirst(removeNonAlphanumerics(doc.info.title)) \o ClientSuffix

(***************************************************************************)
(* TypeScriptClientGenerator: the parts of an endpoint method.             *)
(*                                                                         *)
(* A parameter name is a sequence of one-character strings.  A `string |   *)
(* null` is the list of the strings it holds: <<>> for null.  The emitted  *)
(* method is the record of the parts generateEndpointMethod writes out.    *)
(***************************************************************************)
JsonMedia == "application/json"

\* the characters of a key: a response status, a property name
keyChars(k) ==
    CASE k = "200" -> <<"2","0","0">>
      [] k = "201" -> <<"2","0","1">>
      [] k = "204" -> <<"2","0","4">>
      [] k = "399" -> <<"3","9","9">>
      [] k = "400" -> <<"4","0","0">>
      [] k = "404" -> <<"4","0","4">>
      [] k = "500" -> <<"5","0","0">>
      [] k = "4XX" -> <<"4","X","X">>
      [] k = "default" -> <<"d","e","f","a","u","l","t">>
      [] k = "10" -> <<"1","0">>
      [] OTHER -> <<k>>

digitValue(c) == IndexIn(Digits, c) - 1

\* parseInt(string): the value of the leading decimal digits, <<>> for NaN
RECURSIVE parseIntAcc(_, _, _)
parseIntAcc(s, seen, acc) ==
    IF s # <<>> /\ isDigit(Head(s))
    THEN parseIntAcc(Tail(s), TRUE, acc * 10 + digitValue(Head(s)))
    ELSE IF seen THEN <<acc>> ELSE <<>>
parseInt(s) == parseIntAcc(s, FALSE, 0)

\* an integer index key: its characters are the canonical decimal numeral
isIndexKey(k) ==
    /\ \A i \in 1..Len(keyChars(k)) : isDigit(keyChars(k)[i])
    /\ Len(keyChars(k)) = 1 \/ Head(keyChars(k)) # "0"

\* ascending numeric order of a list of index keys
RECURSIVE ascending(_)
ascending(ks) ==
    IF ks = <<>> THEN <<>>
    ELSE LET least == CHOOSE i \in 1..Len(ks) :
                 \A j \in 1..Len(ks) : parseInt(keyChars(ks[i]))[1] <= parseInt(keyChars(ks[j]))[1]
         IN <<ks[least]>> \o ascending(SelectSeq(ks, LAMBDA k : k # ks[least]))

\* Object.keys of an object: integer index keys first, in ascending numeric
\* order, then the other keys in the order they were added
objectKeys(obj) ==
    LET keys == [i \in 1..Len(obj) |-> obj[i].key]
    IN ascending(SelectSeq(keys, isIndexKey)) \o SelectSeq(keys, LAMBDA k : ~isIndexKey(k))

(***************************************************************************)
(* TypeScriptClientGenerator.schemaToType                                  *)
(***************************************************************************)
\* a returned type expression, and the RangeError a call nested deeper than
\* the call stack allows raises instead of returning
Ok(text)   == [ok |-> TRUE, text |-> text]
RangeError == [ok |-> FALSE, text |-> <<"RangeError: Maximum call stack size exceeded">>]

\* what reading a property of undefined raises
TypeError == [ok |-> FALSE, text |-> <<"TypeError: Cannot read properties of undefined">>]

AllOk(rs) == \A i \in 1..Len(rs) : rs[i].ok
\* the exception of the first call that raised one
Thrown(rs) == rs[CHOOSE i \in 1..Len(rs) : ~rs[i].ok /\ \A j \in 1..(i - 1) : rs[j].ok]
Texts(rs) == [i \in 1..Len(rs) |-> rs[i].text]

\* mutant: the reference string is used as the type name, prefix and all
typeNameOf_Unstripped(ref) == ref

\* the bare type name of a $ref string
typeNameOf(ref) == replaceFirst(ref, RefPrefix)

\* resolved.enum.map((v) => `"${v}"`).join(' | ')
enumType(values) ==
    join([i \in 1..Len(values) |-> <<"\"", values[i], "\"">>], <<" | ">>)

\* mutant: a property is required when a required list is present
isRequired_Listed(resolved, key) == "required" \in DOMAIN resolved

\* resolved.required?.includes(key)
isRequired(resolved, key) ==
    "required" \in DOMAIN resolved /\ key \in resolved.required

\* `  ${key}${optional}: ${type};`
propertyLine(key, required, type) ==
    <<"  ", key>> \o (IF required THEN <<>> ELSE <<"?">>) \o <<": ">> \o type \o <<";">>

\* `{\n${props}\n}`
objectType(props) == <<"{\n">> \o join(props, <<"\n">>) \o <<"\n}">>

\* Object.entries(resolved.properties): the entries in Object.keys order,
\* integer index keys first
propertyEntries(obj) ==
    LET keys == objectKeys(obj)
    IN [i \in 1..Len(keys) |-> [key |-> keys[i], value |-> MapGet(obj, keys[i])]]

\* a child call's exception propagates; otherwise the parts are assembled
Assemble(rs, text) == IF AllOk(rs) THEN Ok(text) ELSE RangeError

RECURSIVE schemaToTypeAt(_, _, _, _)
schemaToTypeAt(m, schema, visited, depth) ==
    IF depth > MaxStack THEN RangeError
    ELSE
    LET resolved == resolveSchema(m, schema)
        each(ss) == [i \in 1..Len(ss) |-> schemaToTypeAt(m, ss[i], visited, depth + 1)]
        \* the object literal of the entries ps
        object(ps) ==
            LET rs == each([i \in 1..Len(ps) |-> ps[i].value])
                props == [i \in 1..Len(ps) |->
                            propertyLine(ps[i].key, isRequired(resolved, ps[i].key), rs[i].text)]
            IN Assemble(rs, objectType(props))
    IN
    IF IsRef(resolved)
    THEN LET typeName == typeNameOf(resolved.ref)
         IN IF typeName \in visited THEN Ok(typeName)
            ELSE IF MapHas(m, typeName)
            THEN schemaToTypeAt(m, MapGet(m, typeName), visited \cup {typeName}, depth + 1)
            ELSE Ok(typeName)
    ELSE IF "type" \in DOMAIN resolved /\ resolved.type = "string"
    THEN IF "enum" \in DOMAIN resolved THEN Ok(enumType(resolved.enum))
         ELSE Ok(<<"string">>)
    ELSE IF "type" \in DOMAIN resolved /\ resolved.type \in {"number", "integer"}
    THEN Ok(<<"number">>)
    ELSE IF "type" \in DOMAIN resolved /\ resolved.type = "boolean"
    THEN Ok(<<"boolean">>)
    ELSE IF "type" \in DOMAIN resolved /\ resolved.type = "array"
    THEN LET rs == each(<<resolved.items>>)
         IN Assemble(rs, <<"Array<">> \o rs[1].text \o <<">">>)
    ELSE IF "type" \in DOMAIN resolved /\ resolved.type = "object"
    THEN IF "properties" \notin DOMAIN resolved THEN Ok(<<"Record<string, unknown>">>)
         ELSE object(propertyEntries(resolved.properties))
    ELSE IF "oneOf" \in DOMAIN resolved
    THEN LET rs == each(resolved.oneOf) IN Assemble(rs, join(Texts(rs), <<" | ">>))
    ELSE IF "allOf" \in DOMAIN resolved
    THEN LET rs == each(resolved.allOf) IN Assemble(rs, join(Texts(rs), <<" & ">>))
    ELSE IF "anyOf" \in DOMAIN resolved
    THEN LET rs == each(resolved.anyOf) IN Assemble(rs, join(Texts(rs), <<" | ">>))
    ELSE Ok(<<"unknown">>)

\* mutant: the name is added to the set that was passed in
passedAfter_Shared(visited, calleeSet) == calleeSet

\* `const newVisited = new Set(visited)`: the callee works on a copy, so the
\* set that was passed in holds after the call what it held before
passedAfter(visited, calleeSet) == visited

\* what the Set object passed as `visited` holds when the call returns:
\* the children of one schema are handed the same object one after another
RECURSIVE visitedAfterAt(_, _, _, _)
visitedAfterAt(m, schema, visited, depth) ==
    IF depth > MaxStack THEN visited
    ELSE
    LET resolved == resolveSchema(m, schema)
        through(ss) ==
            LET RECURSIVE upTo(_)
                upTo(i) == IF i = 0 THEN visited
                           ELSE visitedAfterAt(m, ss[i], upTo(i - 1), depth + 1)
            IN upTo(Len(ss))
    IN
    IF IsRef(resolved)
    THEN LET typeName == typeNameOf(resolved.ref)
         IN IF typeName \in visited \/ ~MapHas(m, typeName) THEN visited
            ELSE passedAfter(visited,
                             visitedAfterAt(m, MapGet(m, typeName),
                                            visited \cup {typeName}, depth + 1))
    ELSE IF "type" \in DOMAIN resolved /\ resolved.type = "array"
    THEN through(<<resolved.items>>)
    ELSE IF "type" \in DOMAIN resolved /\ resolved.type = "object"
    THEN IF "properties" \notin DOMAIN resolved THEN visited
         ELSE LET ps == propertyEntries(resolved.properties)
              IN through([i \in 1..Len(ps) |-> ps[i].value])
    ELSE IF "type" \in DOMAIN resolved THEN visited
    ELSE IF "oneOf" \in DOMAIN resolved THEN through(resolved.oneOf)
    ELSE IF "allOf" \in DOMAIN resolved THEN through(resolved.allOf)
    ELSE IF "anyOf" \in DOMAIN resolved THEN through(resolved.anyOf)
    ELSE visited

\* schemaToType(schema, visited) as a caller invokes it
schemaToType(m, schema, visited) == schemaToTypeAt(m, schema, visited, 1)

\* schemaToType(this.parser.resolveSchema(schema), new Set())
typeOfSchema(m, schema) == schemaToType(m, resolveSchema(m, schema), {})

\* content['application/json']?.schema
hasJsonSchema(holder) ==
    /\ "content" \in DOMAIN holder
    /\ MapHas(holder.content, JsonMedia)
    /\ "schema" \in DOMAIN MapGet(holder.content, JsonMedia)
jsonSchemaOf(holder) == MapGet(holder.content, JsonMedia).schema

\* mutant: the last of the three statuses present is chosen
successResponse_Last(responses) ==
    IF MapHas(responses, "204") THEN <<MapGet(responses, "204")>>
    ELSE IF MapHas(responses, "201") THEN <<MapGet(responses, "201")>>
    ELSE IF MapHas(responses, "200") THEN <<MapGet(responses, "200")>>
    ELSE <<>>

\* responses['200'] || responses['201'] || responses['204']
successResponse(responses) ==
    IF MapHas(responses, "200") THEN <<MapGet(responses, "200")>>
    ELSE IF MapHas(responses, "201") THEN <<MapGet(responses, "201")>>
    ELSE IF MapHas(responses, "204") THEN <<MapGet(responses, "204")>>
    ELSE <<>>

extractResponseType(m, responses) ==
    LET chosen == successResponse(responses)
    IN IF chosen # <<>> /\ hasJsonSchema(chosen[1])
       THEN typeOfSchema(m, jsonSchemaOf(chosen[1]))
       ELSE Ok(<<"unknown">>)

\* requestBody.content is read without a guard
extractRequestBodyType(m, requestBody) ==
    IF "content" \notin DOMAIN requestBody THEN TypeError
    ELSE IF hasJsonSchema(requestBody)
    THEN typeOfSchema(m, jsonSchemaOf(requestBody))
    ELSE Ok(<<"unknown">>)

\* the statuses extractErrorTypes keeps: parseInt(status) >= 400
errorStatuses(responses) ==
    LET keys == objectKeys(responses)
        kept == SelectSeq(keys, LAMBDA k : parseInt(keyChars(k)) # <<>>
                                            /\ parseInt(keyChars(k))[1] >= 400)
    IN [i \in 1..Len(kept) |-> parseInt(keyChars(kept[i]))[1]]

\* mutant: only the first error status is kept
extractErrorTypes_First(responses) ==
    LET statuses == errorStatuses(responses)
    IN IF statuses = <<>> THEN <<>> ELSE <<<<ToString(statuses[1])>>>>

extractErrorTypes(responses) ==
    LET statuses == errorStatuses(responses)
    IN IF statuses = <<>> THEN <<>>
       ELSE <<join([i \in 1..Len(statuses) |-> <<ToString(statuses[i])>>], <<" | ">>)>>

\* p.required, p.schema as conditions
requiredOf(p) == "required" \in DOMAIN p /\ p.required
paramType(m, p) == IF "schema" \in DOMAIN p THEN typeOfSchema(m, p.schema) ELSE Ok(<<"string">>)

\* endpoint.parameters.filter((p) => p.in === where)
paramsIn(parameters, where) == SelectSeq(parameters, LAMBDA p : p.in = where)

\* `${p.name}: ${type}` / `${p.name}${optional}: ${type}`
paramProp(p, optional, type) ==
    p.name \o (IF optional THEN <<"?">> ELSE <<>>) \o <<": ">> \o type

\* `{ ${props} }` of the props joined by '; '
bundleType(props) ==
    IF props = <<>> THEN <<"Record<string, never>">>
    ELSE <<"{ ">> \o join(props, <<"; ">>) \o <<" }">>

generatePathParamsType(m, params) ==
    LET rs == [i \in 1..Len(params) |-> paramType(m, params[i])]
    IN Assemble(rs, bundleType([i \in 1..Len(params) |->
                                   paramProp(params[i], FALSE, rs[i].text)]))

generateQueryParamsType(m, params) ==
    LET rs == [i \in 1..Len(params) |-> paramType(m, params[i])]
    IN Assemble(rs, bundleType([i \in 1..Len(params) |->
                                   paramProp(params[i], ~requiredOf(params[i]), rs[i].text)]))

\* \w of a regular expression
isWordChar(c) == isAlphanumeric(c) \/ c = "_"

\* the longest run of word characters a string begins with
RECURSIVE wordPrefix(_)
wordPrefix(s) ==
    IF s # <<>> /\ isWordChar(Head(s)) THEN <<Head(s)>> \o wordPrefix(Tail(s)) ELSE <<>>

\* path.replace(/\{(\w+)\}/g, '${params.$1}') read as a template literal:
\* literal characters and substitutions of params.<name>
RECURSIVE templateOf(_)
templateOf(path) ==
    IF path = <<>> THEN <<>>
    ELSE LET word == wordPrefix(Tail(path))
             rest == SubSeq(path, Len(word) + 2, Len(path))
         IN IF Head(path) = "{" /\ word # <<>> /\ rest # <<>> /\ Head(rest) = "}"
            THEN <<[param |-> word]>> \o templateOf(Tail(rest))
            ELSE <<[lit |-> Head(path)]>> \o templateOf(Tail(path))

\* the path as literal characters only
literalOf(path) == [i \in 1..Len(path) |-> [lit |-> path[i]]]

\* the template after `${this.baseUrl}` in `const url = ...`
generateUrlConstruction(path, pathParams) ==
    IF pathParams = <<>> THEN literalOf(path) ELSE templateOf(path)

\* one parameter of the emitted signature
SigParam(name, optional, type) == [name |-> name, optional |-> optional, type |-> type]

\* mutant: the query bundle is listed before the path bundle
signatureParams_QueryFirst(pathParams, queryParams, queryType, bodyType) ==
    (IF queryParams # <<>>
     THEN <<SigParam("query", \A i \in 1..Len(queryParams) : ~requiredOf(queryParams[i]), queryType)>>
     ELSE <<>>)
    \o (IF pathParams # <<>> THEN <<SigParam("params", FALSE, <<"TParams">>)>> ELSE <<>>)
    \o (IF bodyType # <<>> /\ bodyType[1] # <<>>
        THEN <<SigParam("body", FALSE, bodyType[1])>> ELSE <<>>)

\* the params array of generateEndpointMethod; `if (bodyType)` is false for
\* null and for the empty string
signatureParams(pathParams, queryParams, queryType, bodyType) ==
    (IF pathParams # <<>> THEN <<SigParam("params", FALSE, <<"TParams">>)>> ELSE <<>>)
    \o (IF queryParams # <<>>
        THEN <<SigParam("query", \A i \in 1..Len(queryParams) : ~requiredOf(queryParams[i]), queryType)>>
        ELSE <<>>)
    \o (IF bodyType # <<>> /\ bodyType[1] # <<>>
        THEN <<SigParam("body", FALSE, bodyType[1])>> ELSE <<>>)

\* the type arguments of ApiResult in the return type; `errorTypes ? ... : ''`
returnTypeArgs(errorTypes) ==
    <<<<"TResponse">>>>
    \o (IF errorTypes # <<>> /\ errorTypes[1] # <<>> THEN errorTypes ELSE <<>>)

\* generateAdvancedFetchCall: `body: JSON.stringify(body)` is written iff hasBody
serialisesBody(hasBody, bodyType) == hasBody

\* generateEndpointMethod from the signature on: the emitted method, or the
\* exception of the first type that could not be synthesized
endpointMethod(endpoint, pathParams, queryParams, types) ==
    LET hasBody == "requestBody" \in DOMAIN endpoint
        pathType == types[1]
        queryType == types[2]
        bodyResult == types[3]
        responseType == types[4]
        bodyType == IF hasBody THEN <<bodyResult.text>> ELSE <<>>
        errorTypes == extractErrorTypes(endpoint.responses)
    IN IF ~AllOk(types) THEN Thrown(types)
       ELSE [ ok |-> TRUE,
              name |-> sanitizeMethodName(endpoint.operationId),
              typeParams |->
                  (IF pathParams # <<>> THEN <<[name |-> "TParams", default |-> pathType.text]>>
                                        ELSE <<>>)
                  \o <<[name |-> "TResponse", default |-> responseType.text]>>,
              params |-> signatureParams(pathParams, queryParams, queryType.text, bodyType),
              returnArgs |-> returnTypeArgs(errorTypes),
              url |-> generateUrlConstruction(endpoint.path, pathParams),
              query |-> [i \in 1..Len(queryParams) |-> queryParams[i].name],
              httpMethod |-> toUpperCase(methodChars(endpoint.method)),
              body |-> serialisesBody(hasBody, bodyType) ]

\* the four types are synthesized in this order before anything is written
generateEndpointMethod(m, endpoint) ==
    endpointMethod(endpoint,
                   paramsIn(endpoint.parameters, "path"),
                   paramsIn(endpoint.parameters, "query"),
                   << generatePathParamsType(m, paramsIn(endpoint.parameters, "path")),
                      generateQueryParamsType(m, paramsIn(endpoint.parameters, "query")),
                      IF "requestBody" \in DOMAIN endpoint
                      THEN extractRequestBodyType(m, endpoint.requestBody) ELSE Ok(<<>>),
                      extractResponseType(m, endpoint.responses) >>)

(***************************************************************************)
(* TypeScriptClientGenerator.generate: the emitted file                    *)
(*                                                                         *)
(* The file is the sequence of its top-level declarations in text order:   *)
(* a type alias [kind, name, text], the class [kind, name, baseUrl,        *)
(* scaffolding, methods] and the export [kind, name].                      *)
(***************************************************************************)
\* generateHeader: the result union and the interceptor types, the same for
\* every client
SharedTypes ==
    <<"ApiError", "ApiSuccess", "ApiResult", "RequestInterceptor", "ResponseInterceptor">>
generateHeader(className) ==
    [i \in 1..Len(SharedTypes) |-> [kind |-> "export type", name |-> SharedTypes[i]]]

\* `export type ${name} = ${this.schemaToType(schema)};`
typeAlias(name, text) == [kind |-> "export type", name |-> name, text |-> text]

\* mutant: the registry is walked from its last entry to its first
generateTypes_Reversed(m) ==
    LET rs == [i \in 1..Len(m) |-> schemaToType(m, m[i].value, {})]
    IN IF ~AllOk(rs) THEN RangeError
       ELSE [ok |-> TRUE,
             code |-> [i \in 1..Len(m) |->
                          typeAlias(m[Len(m) + 1 - i].key, rs[Len(m) + 1 - i].text)]]

\* generateTypes: one alias per entry of schemas.entries(), in the Map's order
generateTypes(m) ==
    LET rs == [i \in 1..Len(m) |-> schemaToType(m, m[i].value, {})]
    IN IF ~AllOk(rs) THEN RangeError
       ELSE [ok |-> TRUE,
             code |-> [i \in 1..Len(m) |-> typeAlias(m[i].key, rs[i].text)]]

\* the members generateClientClass writes before the endpoint methods
Scaffolding ==
    <<"constructor", "setApiKey", "setBearerToken", "addRequestInterceptor",
      "addResponseInterceptor", "setRetryConfig", "internalFetch">>

\* generateClientClass: the scaffolding, then one method per endpoint of the
\* list, in the list's order
clientClass(className, baseUrl, ms) ==
    IF ~AllOk(ms) THEN Thrown(ms)
    ELSE [ok |-> TRUE,
          code |-> <<[kind |-> "export class", name |-> className, baseUrl |-> baseUrl,
                      scaffolding |-> Scaffolding, methods |-> ms]>>]

generateClientClass(m, className, baseUrl, endpoints) ==
    clientClass(className, baseUrl,
                [i \in 1..Len(endpoints) |-> generateEndpointMethod(m, endpoints[i])])

\* `export default ${className};`
generateExports(className) == <<[kind |-> "export default", name |-> className]>>

\* OpenAPIParser.getBaseUrl(): the first server's url, or the placeholder
BaseUrl == "https://api.example.com"
getBaseUrl(doc) ==
    IF "servers" \in DOMAIN doc /\ Len(doc.servers) > 0
    THEN doc.servers[1].url
    ELSE BaseUrl

\* generate(): header, types, class and export, concatenated in that order
generated(className, types, class) ==
    IF ~types.ok THEN types
    ELSE IF ~class.ok THEN class
    ELSE [ok |-> TRUE,
          code |-> generateHeader(className) \o types.code \o class.code
                   \o generateExports(className)]

generate(doc) ==
    generated(generateClassName(doc),
              generateTypes(loadSchemas(doc)),
              generateClientClass(loadSchemas(doc), generateClassName(doc), getBaseUrl(doc),
                                  extractEndpoints(doc)))

(***************************************************************************)
(* TypeScriptClientGenerator.indentLevel                                   *)
(*                                                                         *)
(* What a generator function does to the indentation counter, in code      *)
(* order: the lines it writes with `this.indent()` and its                 *)
(* `this.indentLevel++` and `this.indentLevel--`.                          *)
(***************************************************************************)
Line(part) == [line |-> part]
Inc == [step |-> 1]
Dec == [step |-> -1]

\* mutant: the `if (query)` block is not closed by a decrement
generateAdvancedFetchCallOps_Open(queryParams, hasBody) ==
    <<Line("const searchParams")>>
    \o (IF Len(queryParams) > 0
        THEN <<Line("if (query) {"), Inc>>
             \o [i \in 1..Len(queryParams) |-> Line("searchParams.set")]
             \o <<Line("}"), Line("const queryString"), Line("const finalUrl")>>
        ELSE <<Line("const finalUrl")>>)
    \o <<Line("const options"), Inc, Line("method")>>
    \o (IF hasBody THEN <<Line("body")>> ELSE <<>>)
    \o <<Dec, Line("};"), Line("try {"), Inc, Line("const data"), Line("return Success"), Dec,
         Line("} catch (error) {"), Inc, Line("if status"), Line("}"), Line("return ApiError"),
         Line("};"), Dec, Line("}")>>

generateAdvancedFetchCallOps(queryParams, hasBody) ==
    <<Line("const searchParams")>>
    \o (IF Len(queryParams) > 0
        THEN <<Line("if (query) {"), Inc>>
             \o [i \in 1..Len(queryParams) |-> Line("searchParams.set")]
             \o <<Dec, Line("}"), Line("const queryString"), Line("const finalUrl")>>
        ELSE <<Line("const finalUrl")>>)
    \o <<Line("const options"), Inc, Line("method")>>
    \o (IF hasBody THEN <<Line("body")>> ELSE <<>>)
    \o <<Dec, Line("};"), Line("try {"), Inc, Line("const data"), Line("return Success"), Dec,
         Line("} catch (error) {"), Inc, Line("if status"), Line("}"), Line("return ApiError"),
         Line("};"), Dec, Line("}")>>

\* generateEndpointMethod: the types are synthesized first, then the JSDoc
\* and the signature are written, then the body between ++ and --
generateEndpointMethodOps(endpoint) ==
    <<Line("/** */"), Line("async"), Line(">("), Line("): Promise"), Inc, Line("const url")>>
    \o generateAdvancedFetchCallOps(paramsIn(endpoint.parameters, "query"),
                                    "requestBody" \in DOMAIN endpoint)
    \o <<Dec, Line("}")>>

\* generateClientClass as far as it runs: ++, the members, the methods of
\* the endpoints before the first one whose generation raises, and the --
\* only when none raises
clientClassOps(endpoints, ms) ==
    LET done == IF AllOk(ms) THEN Len(ms)
                ELSE (CHOOSE i \in 1..Len(ms) : ~ms[i].ok /\ \A j \in 1..(i - 1) : ms[j].ok) - 1
    IN <<Inc, Line("fields"), Line("constructor"), Line("setApiKey"), Line("setBearerToken"),
         Line("addRequestInterceptor"), Line("addResponseInterceptor"),
         Line("setRetryConfig"), Line("internalFetch")>>
       \o concat([i \in 1..done |-> generateEndpointMethodOps(endpoints[i])])
       \o (IF AllOk(ms) THEN <<Dec>> ELSE <<>>)

generateClientClassOps(m, endpoints) ==
    clientClassOps(endpoints,
                   [i \in 1..Len(endpoints) |-> generateEndpointMethod(m, endpoints[i])])

\* generate() as far as it runs: generateTypes touches no indentation and
\* may raise before the class is begun
generateOps(doc) ==
    LET m == loadSchemas(doc)
    IN IF ~generateTypes(m).ok THEN <<>>
       ELSE generateClientClassOps(m, extractEndpoints(doc))

\* the lines written, each with the indentation it got, and the counter left
written(ops, level) ==
    LET levelAfter(i) == level + Cardinality({ j \in 1..i : ops[j] = Inc })
                               - Cardinality({ j \in 1..i : ops[j] = Dec })
        each == [i \in 1..Len(ops) |->
                    IF "line" \in DOMAIN ops[i]
                    THEN [line |-> ops[i].line, indent |-> levelAfter(i)]
                    ELSE ops[i]]
    IN [lines |-> SelectSeq(each, LAMBDA o : "line" \in DOMAIN o),
        indentLevel |-> levelAfter(Len(ops))]

(***************************************************************************)
(* ExampleGenerator and generateClientArtifacts                            *)
(*                                                                         *)
(* The example file is the record of what it imports and instantiates and  *)
(* of the calls it makes, in order.                                        *)
(***************************************************************************)
\* `endpoints.slice(0, 3)`
ExampleEndpoints == 3
slice(s, n) == SubSeq(s, 1, IF Len(s) < n THEN Len(s) ELSE n)

\* mutant: the example keeps the capitals of the operationId
ExampleGenerator_sanitizeMethodName_Cased(name) ==
    splitCamelCase(prefixLeadingDigit(underscoreNonAlphanumerics(name)))

\* ExampleGenerator.sanitizeMethodName: its own copy of the four steps
ExampleGenerator_sanitizeMethodName(name) ==
    toLowerCase(splitCamelCase(prefixLeadingDigit(underscoreNonAlphanumerics(name))))

\* one sample argument per parameter kind the endpoint has; the query
\* sample names the first two query parameters only
generateEndpointExample(endpoint) ==
    LET pathParams == paramsIn(endpoint.parameters, "path")
        queryParams == paramsIn(endpoint.parameters, "query")
    IN [ comment |-> IF "summary" \in DOMAIN endpoint /\ endpoint.summary # <<>>
                     THEN endpoint.summary ELSE endpoint.operationId,
         name |-> ExampleGenerator_sanitizeMethodName(endpoint.operationId),
         args |-> (IF pathParams # <<>>
                   THEN << [i \in 1..Len(pathParams) |-> pathParams[i].name] >> ELSE <<>>)
                  \o (IF queryParams # <<>>
                      THEN << [i \in 1..Len(slice(queryParams, 2)) |-> queryParams[i].name] >>
                      ELSE <<>>)
                  \o (IF "requestBody" \in DOMAIN endpoint THEN << <<"body">> >> ELSE <<>>) ]

\* ExampleGenerator.generate()
ExampleGenerator_generate(doc, className) ==
    LET exampleEndpoints == slice(extractEndpoints(doc), ExampleEndpoints)
    IN [ imports |-> className,
         instantiates |-> className,
         baseUrl |-> getBaseUrl(doc),
         calls |-> [i \in 1..Len(exampleEndpoints) |->
                       generateEndpointExample(exampleEndpoints[i])] ]

\* generateClientArtifacts(spec, options), the value of includeExample
\* written as JavaScript writes it: nothing is returned when generate()
\* raises
generateClientArtifacts(doc, options) ==
    LET client == generate(doc)
        className == generateClassName(doc)
    IN IF ~client.ok THEN client
       ELSE [ ok |-> TRUE,
              className |-> className,
              client |-> client.code,
              endpoints |-> extractEndpoints(doc),
              baseUrl |-> getBaseUrl(doc) ]
            @@ (IF ~("includeExample" \in DOMAIN options /\ options.includeExample = "false")
                THEN [example |-> ExampleGenerator_generate(doc, className)]
                ELSE [x \in {} |-> x])

(***************************************************************************)
(* cli.ts main().  A file name is a sequence of one-character strings;     *)
(* the files written are an ordered map from name to content.              *)
(***************************************************************************)
\* String.prototype.replace with a string pattern: the first occurrence
\* only, the string itself when there is none
replaceString(s, pat, rep) ==
    LET at == { i \in 1..(Len(s) - Len(pat) + 1) : SubSeq(s, i, i + Len(pat) - 1) = pat }
    IN IF at = {} THEN s
       ELSE LET i == CHOOSE k \in at : \A j \in at : k <= j
            IN SubSeq(s, 1, i - 1) \o rep \o SubSeq(s, i + Len(pat), Len(s))

DefaultOutputFile ==
    <<"g","e","n","e","r","a","t","e","d","-","c","l","i","e","n","t",".","t","s">>
dotTs == <<".","t","s">>
exampleSuffix == <<"-","e","x","a","m","p","l","e",".","t","s">>

\* `args[1] || 'generated-client.ts'`
outputFileOf(args) == IF Len(args) >= 2 /\ args[2] # <<>> THEN args[2] ELSE DefaultOutputFile
exampleFileOf(outputFile) == replaceString(outputFile, dotTs, exampleSuffix)

\* writeFileSync: the file is created or its content replaced
writeFileSync(files, file, content) == MapSet(files, file, content)

\* main(): exit code 1 and nothing written without arguments or when the
\* generation raises; otherwise the client, then the example, are written
main(args, doc, files) ==
    LET outputFile == outputFileOf(args)
        generatedCode == generate(doc)
        className == generateClassName(doc)
        exampleCode == ExampleGenerator_generate(doc, className)
        exampleFile == exampleFileOf(outputFile)
    IN IF Len(args) < 1 \/ ~generatedCode.ok THEN [exit |-> 1, files |-> files]
       ELSE [exit |-> 0,
             files |-> writeFileSync(writeFileSync(files, outputFile, generatedCode.code),
                                     exampleFile, exampleCode)]

(***************************************************************************)
(* The URL an emitted endpoint method builds when it is called             *)
(***************************************************************************)
UndefinedChars == <<"u","n","d","e","f","i","n","e","d">>

\* `${params.name}`: String(value), "undefined" for a missing property
substituted(params, name) ==
    IF MapHas(params, name) THEN MapGet(params, name) ELSE UndefinedChars

\* const url = `${this.baseUrl}...`
RECURSIVE evaluateTemplate(_, _)
evaluateTemplate(template, params) ==
    IF template = <<>> THEN <<>>
    ELSE (IF "param" \in DOMAIN Head(template)
          THEN substituted(params, Head(template).param)
          ELSE <<Head(template).lit>>)
         \o evaluateTemplate(Tail(template), params)

\* the searchParams.set calls, one per declared query parameter whose value
\* is not undefined; set replaces the value of a name set before
RECURSIVE searchParamsOf(_, _, _)
searchParamsOf(names, query, acc) ==
    IF names = <<>> THEN acc
    ELSE searchParamsOf(Tail(names), query,
             IF MapHas(query, Head(names))
             THEN MapSet(acc, Head(names), MapGet(query, Head(names)))
             ELSE acc)

\* URLSearchParams.toString() over names and values that need no escaping
queryStringOf(searchParams) ==
    join([i \in 1..Len(searchParams) |->
             searchParams[i].key \o <<"=">> \o searchParams[i].value], <<"&">>)

\* finalUrl of a call: params is the params argument, queryArg the list of
\* the query argument (<<>> when it is undefined)
finalUrl(method, params, queryArg) ==
    LET url == <<BaseUrl>> \o evaluateTemplate(method.url, params)
        searchParams == IF queryArg = <<>> THEN <<>>
                        ELSE searchParamsOf(method.query, queryArg[1], <<>>)
        queryString == queryStringOf(searchParams)
    IN IF method.query # <<>> /\ queryString # <<>>
       THEN url \o <<"?">> \o queryString ELSE url
(***************************************************************************)
(* The emitted client at run time: the class generateClientClass writes,   *)
(* its internalFetch (generateInternalFetchMethod) and the body of an      *)
(* endpoint method (generateAdvancedFetchCall)                             *)
(***************************************************************************)
Undefined == "undefined"
NoError == [isError |-> FALSE, hasStatus |-> FALSE, status |-> 0, message |-> "null"]

\* thrown values: an Error, an Error carrying a status, a value that is no
\* Error (message: its String())
PlainError(msg)     == [isError |-> TRUE, hasStatus |-> FALSE, status |-> 0, message |-> msg]
StatusError(st, msg) == [isError |-> TRUE, hasStatus |-> TRUE, status |-> st, message |-> msg]
NonError(str)       == [isError |-> FALSE, hasStatus |-> FALSE, status |-> 0, message |-> str]

\* interceptors: "r1", "r2", "s1", "s2" return their input with their own
\* mark added; "rThrow" and "sThrow" throw
RequestInterceptors  == {"r1", "r2", "rThrow"}
ResponseInterceptors == {"s1", "s2", "sThrow"}
Throwing == {"rThrow", "sThrow"}
ThrownValues ==
    { PlainError("interceptor failed"), StatusError(418, "teapot"), NonError("boom") }
Marked(value, id) == [value EXCEPT !.marks = Append(@, id)]

\* what a network attempt may meet: the status of the response, or
\* NetworkFailure when fetch rejects
NetworkFailure == 0
HttpErrorStatuses == {404, 503}
FetchOutcomes == {NetworkFailure, 200} \cup HttpErrorStatuses
responseOk(status) == status >= 200 /\ status <= 299

\* the class's property initialisers (no constructor config)
NewClient ==
    /\ apiKey = Undefined
    /\ bearerToken = Undefined
    /\ requestInterceptors = <<>>
    /\ responseInterceptors = <<>>
    /\ maxRetries = DefaultMaxRetries
    /\ retryDelay = DefaultRetryDelay
    /\ pc = "idle"
    /\ request = <<>>
    /\ idx = 0
    /\ attempt = 0
    /\ lastError = NoError
    /\ data = <<>>
    /\ outcome = <<>>
    /\ registered = [req |-> <<>>, resp |-> <<>>]
    /\ reqCalls = <<>>
    /\ respCalls = <<>>
    /\ sent = <<>>
    /\ sleeps = <<>>
    /\ raised = NoError

\* no call is under way: the client may be configured
Quiet == pc \in {"idle", "done"}

\* the record of the last call is dropped when the client is reconfigured
ForgetCall ==
    /\ pc' = "idle"
    /\ request' = <<>> /\ idx' = 0 /\ attempt' = 0 /\ lastError' = NoError
    /\ data' = <<>> /\ outcome' = <<>>
    /\ reqCalls' = <<>> /\ respCalls' = <<>> /\ sent' = <<>> /\ sleeps' = <<>>
    /\ raised' = NoError

unshiftInterceptor(list, interceptor) == <<interceptor>> \o list

\* this.requestInterceptors.push(interceptor)
pushInterceptor(list, interceptor) == Append(list, interceptor)

SetApiKey(k) ==
    /\ Quiet
    /\ apiKey' = k
    /\ ForgetCall
    /\ UNCHANGED <<genVars, bearerToken, requestInterceptors, responseInterceptors,
                   maxRetries, retryDelay, registered>>

SetBearerToken(t) ==
    /\ Quiet
    /\ bearerToken' = t
    /\ ForgetCall
    /\ UNCHANGED <<genVars, apiKey, requestInterceptors, responseInterceptors,
                   maxRetries, retryDelay, registered>>

AddRequestInterceptor(i) ==
    /\ Quiet
    /\ Len(requestInterceptors) + Len(responseInterceptors) < MaxInterceptors
    /\ requestInterceptors' = pushInterceptor(requestInterceptors, i)
    /\ registered' = [registered EXCEPT !.req = Append(@, i)]
    /\ ForgetCall
    /\ UNCHANGED <<genVars, apiKey, bearerToken, responseInterceptors, maxRetries, retryDelay>>

AddResponseInterceptor(i) ==
    /\ Quiet
    /\ Len(requestInterceptors) + Len(responseInterceptors) < MaxInterceptors
    /\ responseInterceptors' = pushInterceptor(responseInterceptors, i)
    /\ registered' = [registered EXCEPT !.resp = Append(@, i)]
    /\ ForgetCall
    /\ UNCHANGED <<genVars, apiKey, bearerToken, requestInterceptors, maxRetries, retryDelay>>

\* setRetryConfig(maxRetries, delay = 1000): d is the list of the arguments
\* after the first, <<>> when delay is omitted
SetRetryConfig(n, d) ==
    /\ Quiet
    /\ maxRetries' = n
    /\ retryDelay' = IF d = <<>> THEN DefaultRetryDelay ELSE d[1]
    /\ ForgetCall
    /\ UNCHANGED <<genVars, apiKey, bearerToken, requestInterceptors,
                   responseInterceptors, registered>>

\* if (value): undefined and the empty string are falsy
truthy(value) == value \notin {Undefined, ""}

\* headers: Content-Type, then the credentials that are set
headersOf(key, token) ==
    {"Content-Type"}
    \cup (IF truthy(key) THEN {"X-API-Key"} ELSE {})
    \cup (IF truthy(token) THEN {"Authorization"} ELSE {})

\* the endpoint method's catch: the ApiError it returns for a caught value
ApiErrorOf(error) ==
    IF error.isError /\ error.hasStatus
    THEN [tag |-> "ApiError", status |-> error.status, message |-> error.message]
    ELSE [tag |-> "ApiError", status |-> FallbackStatus,
          message |-> IF error.isError THEN error.message ELSE "Unknown error"]

\* error instanceof Error ? error : new Error(String(error))
asError(error) == IF error.isError THEN error ELSE PlainError(error.message)

backoffDelay_Fixed(base, k) == base

\* this.retryDelay * Math.pow(2, attempt)
backoffDelay(base, k) == base * 2^k

\* the retry loop's catch: remember the error, then wait and go round again
\* or, on the last attempt, rethrow into the endpoint method's catch
Caught(error) ==
    /\ raised' = error
    /\ lastError' = asError(error)
    /\ IF attempt < maxRetries
       THEN /\ sleeps' = Append(sleeps, backoffDelay(retryDelay, attempt))
            /\ pc' = "sleep"
            /\ outcome' = outcome
       ELSE /\ sleeps' = sleeps
            /\ pc' = "done"
            /\ outcome' = ApiErrorOf(asError(error))

\* return { _tag: 'Success', data }
Returned(d) ==
    /\ pc' = "done"
    /\ outcome' = [tag |-> "Success", data |-> d]

\* what JSON.stringify throws on a body it cannot serialise
StringifyError == PlainError("Converting circular structure to JSON")

\* an endpoint method is called: URL, query string and options are built
\* (JSON.stringify(body) when the endpoint declares a body), then
\* internalFetch builds the headers and the request
CallMethod(body) ==
    /\ Quiet
    /\ reqCalls' = <<>> /\ respCalls' = <<>> /\ sent' = <<>> /\ sleeps' = <<>>
    /\ idx' = 1 /\ attempt' = 0 /\ lastError' = NoError /\ data' = <<>>
    /\ IF body = "circular"
       THEN /\ request' = <<>>
            /\ raised' = StringifyError
            /\ pc' = "done"
            /\ outcome' = [tag |-> "Rejected", error |-> StringifyError]
       ELSE /\ request' = [body |-> body, headers |-> headersOf(apiKey, bearerToken),
                           marks |-> <<>>]
            /\ raised' = NoError
            /\ pc' = IF requestInterceptors = <<>> THEN "fetch" ELSE "reqInt"
            /\ outcome' = <<>>
    /\ UNCHANGED <<genVars, clientVars, registered>>

\* one round of `for (const interceptor of this.requestInterceptors)`;
\* what an interceptor throws leaves internalFetch and is caught by the
\* endpoint method
RunRequestInterceptor ==
    /\ pc = "reqInt"
    /\ LET i == requestInterceptors[idx]
       IN IF i \in Throwing
          THEN /\ \E e \in ThrownValues :
                      /\ raised' = e
                      /\ outcome' = ApiErrorOf(e)
               /\ pc' = "done"
               /\ UNCHANGED <<request, idx, reqCalls>>
          ELSE /\ request' = Marked(request, i)
               /\ reqCalls' = Append(reqCalls,
                      [id |-> i, input |-> request, output |-> Marked(request, i)])
               /\ idx' = idx + 1
               /\ pc' = IF idx = Len(requestInterceptors) THEN "fetch" ELSE "reqInt"
               /\ UNCHANGED <<raised, outcome>>
    /\ UNCHANGED <<genVars, clientVars, registered, attempt, lastError, data,
                   respCalls, sent, sleeps>>

\* `await fetch(url, request)` of one attempt and the response.ok test
Fetch(o) ==
    /\ pc = "fetch"
    /\ attempt <= maxRetries
    /\ sent' = Append(sent, request)
    /\ respCalls' = <<>>
    /\ CASE o = NetworkFailure -> Caught(PlainError("Failed to fetch"))
         [] responseOk(o)      -> /\ pc' = "json"
                                  /\ UNCHANGED <<raised, lastError, sleeps, outcome>>
         [] OTHER              -> Caught(StatusError(o, "API error"))
    /\ UNCHANGED <<genVars, clientVars, registered, request, idx, attempt, data, reqCalls>>

\* `await response.json()`, then the response interceptor loop is entered
ParseJson(parses) ==
    /\ pc = "json"
    /\ IF parses
       THEN /\ data' = [marks |-> <<>>]
            /\ idx' = 1
            /\ IF responseInterceptors = <<>>
               THEN Returned([marks |-> <<>>])
               ELSE pc' = "respInt" /\ outcome' = outcome
            /\ UNCHANGED <<raised, lastError, sleeps>>
       ELSE /\ Caught(PlainError("Unexpected token in JSON"))
            /\ UNCHANGED <<data, idx>>
    /\ UNCHANGED <<genVars, clientVars, registered, request, attempt, reqCalls,
                   respCalls, sent>>

\* one round of `for (const interceptor of this.responseInterceptors)`;
\* what an interceptor throws is caught by the retry loop
RunResponseInterceptor ==
    /\ pc = "respInt"
    /\ LET i == responseInterceptors[idx]
       IN IF i \in Throwing
          THEN /\ \E e \in ThrownValues : Caught(e)
               /\ UNCHANGED <<data, idx, respCalls>>
          ELSE /\ data' = Marked(data, i)
               /\ respCalls' = Append(respCalls,
                      [id |-> i, input |-> data, output |-> Marked(data, i)])
               /\ idx' = idx + 1
               /\ IF idx = Len(responseInterceptors)
                  THEN Returned(Marked(data, i))
                  ELSE pc' = "respInt" /\ outcome' = outcome
               /\ UNCHANGED <<raised, lastError, sleeps>>
    /\ UNCHANGED <<genVars, clientVars, registered, request, attempt, reqCalls, sent>>

\* mutant: the request interceptor loop is inside the retry loop
WakeUp_Reintercept ==
    /\ pc = "sleep"
    /\ attempt' = attempt + 1
    /\ idx' = 1
    /\ pc' = IF requestInterceptors = <<>> THEN "fetch" ELSE "reqInt"
    /\ UNCHANGED <<genVars, clientVars, logVars, request, lastError, data, outcome>>

\* the timer of the backoff wait fires: attempt++ and the loop goes round
WakeUp ==
    /\ pc = "sleep"
    /\ attempt' = attempt + 1
    /\ pc' = "fetch"
    /\ UNCHANGED <<genVars, clientVars, logVars, request, idx, lastError, data, outcome>>

\* the loop condition fails before any attempt:
\* throw lastError || new Error('Unknown error')
LoopExit ==
    /\ pc = "fetch"
    /\ attempt > maxRetries
    /\ raised' = IF lastError = NoError THEN PlainError("Unknown error") ELSE lastError
    /\ outcome' = ApiErrorOf(IF lastError = NoError THEN PlainError("Unknown error") ELSE lastError)
    /\ pc' = "done"
    /\ UNCHANGED <<genVars, clientVars, registered, request, idx, attempt, lastError,
                   data, reqCalls, respCalls, sent, sleeps>>

(***************************************************************************)
(* SpecClient: a new client, configured and called any number of times     *)
(***************************************************************************)
RetryCounts == {-1, 0, 1, 2, DefaultMaxRetries}
RetryDelays == {<<>>, <<250>>}
Bodies == {"none", "json", "circular"}

InitClient ==
    /\ spec = [paths |-> <<>>]
    /\ schemas = <<>>
    /\ op = "new"
    /\ arg = <<>>
    /\ ret = <<>>
    /\ NewClient

NextClient ==
    \/ SetApiKey("key")
    \/ SetBearerToken("token")
    \/ \E i \in RequestInterceptors : AddRequestInterceptor(i)
    \/ \E i \in ResponseInterceptors : AddResponseInterceptor(i)
    \/ \E n \in RetryCounts, d \in RetryDelays : SetRetryConfig(n, d)
    \/ \E b \in Bodies : CallMethod(b)
    \/ RunRequestInterceptor
    \/ \E o \in FetchOutcomes : Fetch(o)
    \/ \E parses \in BOOLEAN : ParseJson(parses)
    \/ RunResponseInterceptor
    \/ WakeUp
    \/ LoopExit

SpecClient == InitClient /\ [][NextClient]_vars

(***************************************************************************)
(* SpecSynth: a parser loaded from a document with components.schemas,     *)
(* then any sequence of resolveSchema / schemaToType calls                 *)
(***************************************************************************)
nA == <<"A">>
nB == <<"B">>
nC == <<"C">>

\* schemas a document registers under A and B; C is never registered
EntrySchemas ==
    { StrT, EnumT, MapT,
      RefTo(nA), RefTo(nB), RefTo(nC),
      ObjT(<<Prop("a", RefTo(nA))>>),
      ObjT(<<Prop("b", RefTo(nB))>>),
      ObjReqT(<<Prop("x", IntT), Prop("y", RefTo(nA))>>, {"x"}),
      ArrT(RefTo(nA)),
      OneOfT(<<StrT, RefTo(nB)>>),
      AllOfT(<<RefTo(nA), MapT>>),
      AnyOfT(<<NumT, RefTo(nC)>>) }

SchemaSections ==
    {<<>>}
    \cup { <<Prop(nA, a)>> : a \in EntrySchemas }
    \cup { <<Prop(nA, a), Prop(nB, b)>> : a \in EntrySchemas, b \in EntrySchemas }
    \cup { <<Prop(nB, b), Prop(nA, a)>> : a \in EntrySchemas, b \in EntrySchemas }

SynthDocs ==
    { [paths |-> <<>>] } \cup { [paths |-> <<>>, schemas |-> ss] : ss \in SchemaSections }

\* schemas handed to resolveSchema / schemaToType: the registry's own
\* entries (as generateTypes passes them) and nodes found inside documents
SchemaInputs ==
    { MapGet(schemas, n) : n \in { k \in {nA, nB} : MapHas(schemas, k) } }
    \cup { RefTo(nA), RefTo(nB), RefTo(nC), BareRef(nA), BareRef(nC),
           IntT, BoolT, NullT, ArrT(RefTo(nC)), ObjT(<<Prop("a", RefTo(nA)), Prop("c", RefTo(nC))>>) }

VisitedSets == SUBSET {nA, nC}

InitSynth ==
    /\ spec \in SynthDocs
    /\ schemas = loadSchemas(spec)
    /\ op = "new"
    /\ arg = <<>>
    /\ ret = <<>>
    /\ NewClient

ResolveSchema(s) ==
    /\ op' = "resolveSchema"
    /\ arg' = [schema |-> s]
    /\ ret' = resolveSchema(schemas, s)
    /\ UNCHANGED <<spec, schemas, clientVars, callVars, logVars>>

SchemaToType(s, v) ==
    /\ op' = "schemaToType"
    /\ arg' = [schema |-> s, visited |-> v]
    /\ ret' = schemaToType(schemas, s, v)
    /\ UNCHANGED <<spec, schemas, clientVars, callVars, logVars>>

NextSynth ==
    \/ \E s \in SchemaInputs : ResolveSchema(s)
    \/ \E s \in SchemaInputs, v \in VisitedSets : SchemaToType(s, v)

SpecSynth == InitSynth /\ [][NextSynth]_vars

(***************************************************************************)
(* Claims about the resolver and the synthesizer (SpecSynth)               *)
(***************************************************************************)
\* what the claims call the bare name of a reference string: the string
\* with the registry-path prefix taken off its front
BareName(ref) == IF ref # <<>> /\ Head(ref) = RefPrefix THEN Tail(ref) ELSE ref

Registered(n) == MapHas(schemas, n)

\* text holds part as a contiguous piece
Contains(text, part) ==
    \E i \in 0..(Len(text) - Len(part)) : SubSeq(text, i + 1, i + Len(part)) = part

Count(text, token) == Cardinality({ i \in 1..Len(text) : text[i] = token })

IsObjectWithProps(s) ==
    "type" \in DOMAIN s /\ s.type = "object" /\ "properties" \in DOMAIN s

\* the registry entry n is an object with a property whose schema is a
\* Reference to t
HasPropertyTo(n, t) ==
    /\ Registered(n)
    /\ IsObjectWithProps(MapGet(schemas, n))
    /\ \E i \in 1..Len(MapGet(schemas, n).properties) :
           MapGet(schemas, n).properties[i].value = RefTo(t)

\* schemaToType was called on the registry entry n with an empty visited set
SynthesizedEntry(n) ==
    /\ op = "schemaToType"
    /\ Registered(n)
    /\ arg.schema = MapGet(schemas, n)
    /\ arg.visited = {}

\* C1: when registry schema A is an object with a property that references
\* A, synthesizing A with an empty visited set returns a type expression
\* that holds the bare name A at the cyclic property.
C1_SelfCycleTerminates ==
    \A n \in {nA, nB} :
        (SynthesizedEntry(n) /\ HasPropertyTo(n, n))
            => (ret.ok /\ Contains(ret.text, <<": ">> \o n \o <<";">>))

\* C2: when A has a property referencing B and B has a property referencing
\* A, synthesizing A with an empty visited set returns a type expression
\* with exactly one inline expansion of B (two object literals in all: A's
\* own and B's), in which the reference back to A is the bare name A.
C2_MutualCycleTerminates ==
    (/\ SynthesizedEntry(nA)
     /\ MapGet(schemas, nA) = ObjT(<<Prop("b", RefTo(nB))>>)
     /\ HasPropertyTo(nB, nA))
        => (/\ ret.ok
            /\ Count(ret.text, "{\n") = 2
            /\ Contains(ret.text, <<": ">> \o nA \o <<";">>))

\* the reference chain that starts at schema s ends at a concrete schema and
\* every name along it is registered (k bounds the walk: a chain longer
\* than the registry is a cycle of aliases and denotes no concrete schema)
RECURSIVE ChainRegistered(_, _)
ChainRegistered(s, k) ==
    IF ~IsRef(s) THEN TRUE
    ELSE IF k = 0 THEN FALSE
    ELSE /\ Registered(BareName(s.ref))
         /\ ChainRegistered(MapGet(schemas, BareName(s.ref)), k - 1)

\* C7 as claimed: resolve returns a non-Reference node itself, and for a
\* Reference whose chain of names is registered the result is not a
\* Reference.
C7_ResolvesToConcrete ==
    op = "resolveSchema" =>
        /\ ~IsRef(arg.schema) => ret = arg.schema
        /\ (IsRef(arg.schema) /\ ChainRegistered(arg.schema, Len(schemas) + 1))
               => ~IsRef(ret)

\* C7 as amended: resolve returns a non-Reference node itself; for a
\* Reference whose bare name is registered it returns the registry entry of
\* that name (one lookup), so the result is not a Reference whenever that
\* entry is not one.
C7_ResolvesOneLookup ==
    op = "resolveSchema" =>
        /\ ~IsRef(arg.schema) => ret = arg.schema
        /\ (IsRef(arg.schema) /\ Registered(BareName(arg.schema.ref)))
               => /\ ret = MapGet(schemas, BareName(arg.schema.ref))
                  /\ ~IsRef(MapGet(schemas, BareName(arg.schema.ref))) => ~IsRef(ret)

\* a registered reference was resolved and its entry is a reference again
C7_Witness ==
    /\ op = "resolveSchema"
    /\ arg.schema = RefTo(nA)
    /\ Registered(nA) /\ Registered(nB)
    /\ ret = RefTo(nB)

\* C8: for a Reference whose bare name is not registered, resolve returns
\* that same Reference node and synthesize, whatever the visited set,
\* returns exactly the bare name.
C8_UnresolvedDegrades ==
    /\ (op = "resolveSchema" /\ IsRef(arg.schema) /\ ~Registered(BareName(arg.schema.ref)))
           => ret = arg.schema
    /\ (op = "schemaToType" /\ IsRef(arg.schema) /\ ~Registered(BareName(arg.schema.ref)))
           => ret = Ok(BareName(arg.schema.ref))

\* an unregistered prefixed reference was synthesized under a visited set
\* that holds other names
C8_Witness ==
    /\ op = "schemaToType"
    /\ arg.schema = RefTo(nC)
    /\ arg.visited = {nA}
    /\ ~Registered(nC)
    /\ ret = Ok(nC)

(***************************************************************************)
(* SpecBuild: a parser over a document's paths, then extractEndpoints      *)
(***************************************************************************)
pathB == <<"/", "b">>
pathA == <<"/", "a", "/", "{", "i", "d", "}">>

ItemKeys == {"get", "post", "put", "patch", "delete", "head"}

\* the orders in which a path item declares up to MaxKeys distinct keys
KeySeqs ==
    UNION { { ks \in [1..n -> ItemKeys] : \A i, j \in 1..n : i # j => ks[i] # ks[j] }
            : n \in 0..MaxKeys }

NoKeys == [x \in {} |-> x]
PlainOp == [responses |-> <<Prop("200", [description |-> "OK"])>>]

\* path items that differ in which operations they declare and in what order
OrderItems == { [i \in 1..Len(ks) |-> Prop(ks[i], PlainOp)] : ks \in KeySeqs }

\* the path items of the second path of a two-path document
SecondItems ==
    { [i \in 1..Len(ks) |-> Prop(ks[i], PlainOp)] :
        ks \in { <<>>, <<"head", "put">>, <<"post", "get">> } }

OrderDocs ==
    { [paths |-> <<>>] }
    \cup { [paths |-> <<Prop(p, it)>>] : p \in {pathA, pathB}, it \in OrderItems }
    \cup { [paths |-> <<Prop(pathB, i1), Prop(pathA, i2)>>] : i1 \in OrderItems, i2 \in SecondItems }
    \cup { [paths |-> <<Prop(pathA, i1), Prop(pathB, i2)>>] : i1 \in OrderItems, i2 \in SecondItems }

pId    == [name |-> "id", in |-> "path", required |-> TRUE]
pTrace == [name |-> "trace", in |-> "header"]
oId    == [name |-> "id", in |-> "query", description |-> "operation-level"]
oLimit == [name |-> "limit", in |-> "query", required |-> FALSE]
listB  == <<"l", "i", "s", "t", "B">>

SharedParamLists == { <<>>, <<pId>>, <<pId, pTrace>> }
OwnParamLists    == { <<oId>>, <<oLimit, oId>>, <<pId>> }

\* operations that differ in their own parameters and operationId
ParamOps ==
    { PlainOp @@ ps @@ id :
        ps \in {NoKeys} \cup { [parameters |-> l] : l \in OwnParamLists },
        id \in { NoKeys, [operationId |-> <<>>], [operationId |-> listB],
                 [operationId |-> listB, summary |-> "List"] } }

SharedEntries == {<<>>} \cup { <<Prop("parameters", l)>> : l \in SharedParamLists }

\* path items that differ in their shared and own parameters; the shared
\* parameters are declared before or after the operation
ParamItems ==
    { pp[1] \o <<Prop(m, o)>> \o pp[2] :
        m \in {"get", "patch"}, o \in ParamOps,
        pp \in { q \in SharedEntries \X SharedEntries : q[1] = <<>> \/ q[2] = <<>> } }
    \cup { <<Prop("parameters", <<pId, pTrace>>), Prop("post", o1), Prop("get", o2)>> :
             o1 \in { o \in ParamOps : "operationId" \notin DOMAIN o },
             o2 \in { o \in ParamOps : "operationId" \notin DOMAIN o } }

ParamDocs == { [paths |-> <<Prop(pathA, it)>>] : it \in ParamItems }

\* paths whose segments are empty, braced or mixed, under an operation that
\* carries no operationId, an empty one or one of its own
pathRoot  == <<"/">>
pathPosts == <<"/","u","s","e","r","s","/","{","i","d","}","/","p","o","s","t","s">>
pathGaps  == <<"/","/","a","/">>
pathBrace == <<"/","{","}","/","x","{","y","}","Z">>
OpIdPaths == {pathRoot, pathPosts, pathGaps, pathBrace}
OpIdOps ==
    { PlainOp, PlainOp @@ [operationId |-> <<>>], PlainOp @@ [operationId |-> listB] }
OpIdDocs ==
    { [paths |-> <<Prop(p, <<Prop(m, o)>>)>>] :
        p \in OpIdPaths, m \in {"get", "post", "put", "patch", "delete"}, o \in OpIdOps }

BuildDocs == OrderDocs \cup ParamDocs \cup OpIdDocs

InitBuild ==
    /\ spec \in BuildDocs
    /\ schemas = loadSchemas(spec)
    /\ op = "new"
    /\ arg = <<>>
    /\ ret = <<>>
    /\ NewClient

ExtractEndpoints ==
    /\ op' = "extractEndpoints"
    /\ arg' = <<>>
    /\ ret' = extractEndpoints(spec)
    /\ UNCHANGED <<spec, schemas, clientVars, callVars, logVars>>

NextBuild == ExtractEndpoints

SpecBuild == InitBuild /\ [][NextBuild]_vars

(***************************************************************************)
(* Claims about the endpoint list (SpecBuild)                              *)
(***************************************************************************)
\* the fixed precedence the claims name
Precedence == <<"get", "post", "put", "patch", "delete">>
Supported == {"get", "post", "put", "patch", "delete"}
Rank(m) == IndexIn(Precedence, m)
PathIndex(p) == CHOOSE i \in 1..Len(spec.paths) : spec.paths[i].key = p
Declares(i, m) == MapHas(spec.paths[i].value, m)

\* C9: build returns exactly one Endpoint for each (path, method) pair whose
\* path entry declares an operation for that method among get, post, put,
\* patch, delete, and no other Endpoint; Endpoints follow the document's
\* path order and, within a path, the precedence get, post, put, patch,
\* delete, whatever order the path entry declares its methods in.
C9_EndpointListShapeAndOrder ==
    op = "extractEndpoints" =>
        /\ \A k \in 1..Len(ret) :
               /\ ret[k].method \in Supported
               /\ \E i \in 1..Len(spec.paths) :
                      spec.paths[i].key = ret[k].path /\ Declares(i, ret[k].method)
        /\ \A i \in 1..Len(spec.paths), m \in Supported :
               Declares(i, m) =>
                   Cardinality({ k \in 1..Len(ret) :
                       ret[k].path = spec.paths[i].key /\ ret[k].method = m }) = 1
        /\ \A k1, k2 \in 1..Len(ret) :
               k1 < k2 =>
                   \/ PathIndex(ret[k1].path) < PathIndex(ret[k2].path)
                   \/ /\ ret[k1].path = ret[k2].path
                      /\ Rank(ret[k1].method) < Rank(ret[k2].method)

\* two paths were built; the first declares delete before get and a key
\* that is no supported method, and the list still has get before delete
C9_Witness ==
    /\ op = "extractEndpoints"
    /\ Len(spec.paths) = 2
    /\ spec.paths[1].key = pathB
    /\ spec.paths[1].value = <<Prop("delete", PlainOp), Prop("get", PlainOp)>>
    /\ spec.paths[2].value = <<Prop("head", PlainOp), Prop("put", PlainOp)>>
    /\ Len(ret) = 3
    /\ ret[1].method = "get" /\ ret[2].method = "delete" /\ ret[3].method = "put"

\* the shared parameters of the path entry an Endpoint came from, and the
\* own parameters of its operation
SharedOf(e) ==
    LET item == MapGet(spec.paths, e.path)
    IN IF MapHas(item, "parameters") THEN MapGet(item, "parameters") ELSE <<>>
OwnOf(e) ==
    LET oper == MapGet(MapGet(spec.paths, e.path), e.method)
    IN IF "parameters" \in DOMAIN oper THEN oper.parameters ELSE <<>>

\* C10: each Endpoint's parameters are the path entry's shared parameters in
\* declared order followed by the operation's own in declared order, none
\* dropped or deduplicated: the length is the sum of the two lengths.
C10_ParameterMerge ==
    op = "extractEndpoints" =>
        \A k \in 1..Len(ret) :
            /\ ret[k].parameters = SharedOf(ret[k]) \o OwnOf(ret[k])
            /\ Len(ret[k].parameters) = Len(SharedOf(ret[k])) + Len(OwnOf(ret[k]))

\* an Endpoint was built whose shared and own parameters both name "id"
C10_Witness ==
    /\ op = "extractEndpoints"
    /\ Len(ret) = 1
    /\ SharedOf(ret[1]) = <<pId, pTrace>>
    /\ OwnOf(ret[1]) = <<oLimit, oId>>
    /\ ret[1].parameters = <<pId, pTrace, oLimit, oId>>

(***************************************************************************)
(* Claims about the emitted client (SpecClient)                            *)
(***************************************************************************)
Finished == pc = "done" /\ outcome # <<>>
Last(seq) == seq[Len(seq)]
Unmarked(value) == value.marks = <<>>

\* C3: every call of an emitted endpoint method completes by returning the
\* Success or the ApiError variant, whatever step fails; a failure that
\* carries a status yields ApiError with that status and the failure's
\* message, any other failure yields ApiError with status 500 and the
\* failure's message.
C3_MethodsNeverThrow ==
    Finished =>
        /\ outcome.tag \in {"Success", "ApiError"}
        /\ outcome.tag = "ApiError" =>
              /\ outcome.message = raised.message
              /\ outcome.status = IF raised.hasStatus THEN raised.status ELSE FallbackStatus

\* C4: with maxRetries = n >= 0 and base delay d, a call whose attempts all
\* fail makes exactly n+1 network attempts, waits d * 2^k between attempt k
\* and attempt k+1, does not wait after the last attempt and surfaces the
\* error of the last attempt; a successful attempt ends the loop at once,
\* so no attempt and no wait follows it.
C4_RetryWithExponentialBackoff ==
    maxRetries >= 0 =>
        /\ Len(sent) <= maxRetries + 1
        /\ \A k \in 1..Len(sleeps) : sleeps[k] = retryDelay * 2^(k - 1)
        /\ pc \in {"json", "respInt"} => Len(sleeps) = Len(sent) - 1
        /\ pc = "sleep" => Len(sleeps) = Len(sent)
        /\ (Finished /\ sent # <<>> /\ outcome.tag = "ApiError") =>
              /\ Len(sent) = maxRetries + 1
              /\ Len(sleeps) = maxRetries
              /\ outcome = ApiErrorOf(asError(raised))
        /\ (Finished /\ outcome.tag = "Success") =>
              /\ Len(sent) = attempt + 1
              /\ Len(sleeps) = attempt

\* a call with two retries and base delay 250 failed three times
C4_Witness ==
    /\ Finished
    /\ maxRetries = 2
    /\ retryDelay = 250
    /\ Len(sent) = 3
    /\ sleeps = <<250, 500>>
    /\ outcome.tag = "ApiError"
    /\ outcome.status = 503

\* C5: a request invokes the request interceptors in registration order,
\* each receiving the previous one's output, and every network call is made
\* with the last one's output; on a successful response the response
\* interceptors are invoked in registration order, each receiving the
\* previous one's data, and the caller receives the last one's output.
C5_InterceptorOrdering ==
    /\ \A k \in 1..Len(reqCalls) :
          /\ k <= Len(registered.req)
          /\ reqCalls[k].id = registered.req[k]
          /\ IF k = 1 THEN Unmarked(reqCalls[k].input)
                      ELSE reqCalls[k].input = reqCalls[k - 1].output
    /\ \A j \in 1..Len(sent) :
          /\ Len(reqCalls) = Len(registered.req)
          /\ IF reqCalls = <<>> THEN Unmarked(sent[j])
                                ELSE sent[j] = Last(reqCalls).output
    /\ \A k \in 1..Len(respCalls) :
          /\ k <= Len(registered.resp)
          /\ respCalls[k].id = registered.resp[k]
          /\ IF k = 1 THEN Unmarked(respCalls[k].input)
                      ELSE respCalls[k].input = respCalls[k - 1].output
    /\ (Finished /\ outcome.tag = "Success") =>
          /\ Len(respCalls) = Len(registered.resp)
          /\ IF respCalls = <<>> THEN Unmarked(outcome.data)
                                 ELSE outcome.data = Last(respCalls).output

\* "r2" was registered before "r1", one response interceptor after them,
\* and a call went through all three and succeeded
C5_Witness ==
    /\ Finished
    /\ outcome.tag = "Success"
    /\ registered.req = <<"r2", "r1">>
    /\ registered.resp = <<"s1">>
    /\ sent[1].marks = <<"r2", "r1">>
    /\ outcome.data.marks = <<"s1">>

(***************************************************************************)
(* Claims about operation identifiers (SpecBuild)                          *)
(***************************************************************************)
\* the identifier the claim derives, read off the path one character at a
\* time: a '/' starts a segment, braces are dropped, the first character
\* kept of a segment is uppercased
RECURSIVE DerivedTail(_, _)
DerivedTail(path, atStart) ==
    IF path = <<>> THEN <<>>
    ELSE IF Head(path) = "/" THEN DerivedTail(Tail(path), TRUE)
    ELSE IF Head(path) \in {"{", "}"} THEN DerivedTail(Tail(path), atStart)
    ELSE <<IF atStart THEN toUpperCaseChar(Head(path)) ELSE Head(path)>>
         \o DerivedTail(Tail(path), FALSE)
DerivedId(method, path) == methodChars(method) \o DerivedTail(path, FALSE)
OperationOf(e) == MapGet(MapGet(spec.paths, e.path), e.method)
Supplies(oper) == "operationId" \in DOMAIN oper /\ oper.operationId # <<>>

\* C11: every Endpoint's operationId is non-empty: the document's own,
\* verbatim, when it supplies a non-empty one, otherwise the lowercase
\* method followed by every non-empty path segment with braces removed and
\* its first character uppercased; for every path, "/" included.
C11_OperationIdNonEmpty ==
    op = "extractEndpoints" =>
        \A k \in 1..Len(ret) :
            /\ ret[k].operationId # <<>>
            /\ ret[k].operationId =
                  IF Supplies(OperationOf(ret[k]))
                  THEN OperationOf(ret[k]).operationId
                  ELSE DerivedId(ret[k].method, ret[k].path)

\* GET /users/{id}/posts without an operationId was built
C11_Witness ==
    /\ op = "extractEndpoints"
    /\ Len(ret) = 1
    /\ ret[1].path = pathPosts
    /\ ret[1].method = "get"
    /\ ~Supplies(OperationOf(ret[1]))
    /\ ret[1].operationId = <<"g","e","t","U","s","e","r","s","I","d","P","o","s","t","s">>

(***************************************************************************)
(* SpecNames: sanitizeMethodName over the strings of a small alphabet      *)
(***************************************************************************)
NameChars == {"a", "b", "C", "7", "-", "_"}
Names == UNION { [1..n -> NameChars] : n \in 0..MaxNameLen }

\* the name to sanitize is drawn; nothing has run yet
InitNames ==
    /\ spec = [paths |-> <<>>]
    /\ schemas = <<>>
    /\ op = "new"
    /\ arg \in Names
    /\ ret = <<>>
    /\ NewClient

SanitizeMethodName ==
    /\ op = "new"
    /\ op' = "sanitizeMethodName"
    /\ ret' = sanitizeMethodName(arg)
    /\ UNCHANGED <<spec, schemas, arg, clientVars, callVars, logVars>>

NextNames == SanitizeMethodName

SpecNames == InitNames /\ [][NextNames]_vars

(***************************************************************************)
(* Claims about method names (SpecNames)                                   *)
(***************************************************************************)
\* C16: for every input string sanitizeMethodName returns a string made only
\* of lowercase letters, digits and underscores that does not begin with a
\* digit, of at least the input's length, with every lowercase-to-uppercase
\* boundary of the input separated; applied to its own output it changes
\* nothing.
C16_SanitizeTotalAndIdempotent ==
    op = "sanitizeMethodName" =>
        /\ \A i \in 1..Len(ret) : isLower(ret[i]) \/ isDigit(ret[i]) \/ ret[i] = "_"
        /\ ret # <<>> => ~isDigit(ret[1])
        /\ Len(ret) >= Len(arg)
        /\ Len(ret) = Len(arg)
              + (IF arg # <<>> /\ isDigit(arg[1]) THEN 1 ELSE 0)
              + Cardinality({ i \in 1..(Len(arg) - 1) : isLower(arg[i]) /\ isUpper(arg[i + 1]) })
        /\ sanitizeMethodName(ret) = ret

\* a name with a leading digit, a non-alphanumeric and a lowercase-to-
\* uppercase boundary was sanitized
C16_Witness ==
    /\ op = "sanitizeMethodName"
    /\ arg = <<"7", "-", "a", "C">>
    /\ ret = <<"_", "7", "_", "a", "_", "c">>

(***************************************************************************)
(* SpecMethod: generateEndpointMethod over an Endpoint, then calls of the  *)
(* emitted method's URL construction                                       *)
(***************************************************************************)
nPet == <<"P","e","t">>
PetSchema ==
    ObjT(<< Prop("id", NumT), Prop("name", StrT),
            Prop("status", [type |-> "string", enum |-> <<"available", "pending", "sold">>]) >>)
MethodRegistryDoc ==
    [paths |-> <<>>, schemas |-> <<Prop(nPet, PetSchema), Prop(nB, BoolT)>>]

\* the schema a response of a status carries when it carries one
schemaFor(k) ==
    CASE k = "200" -> RefTo(nB)
      [] k = "201" -> StrT
      [] k = "204" -> NumT
      [] OTHER     -> ArrT(StrT)
BareResponse == [description |-> "d"]
JsonResponse(k) ==
    [description |-> "d", content |-> <<Prop(JsonMedia, [schema |-> schemaFor(k)])>>]
\* a response whose only content is not JSON, and one whose JSON content
\* has no schema
TextResponse == [description |-> "d", content |-> <<Prop("text/plain", [schema |-> StrT])>>]
SchemalessResponse == [description |-> "d", content |-> <<Prop(JsonMedia, NoKeys)>>]

StatusKeys == {"200", "201", "204", "399", "404", "500", "default", "4XX"}
StatusSeqs ==
    UNION { { ks \in [1..n -> StatusKeys] : \A i, j \in 1..n : i # j => ks[i] # ks[j] }
            : n \in 0..MaxResponses }

\* responses objects: the statuses in every declared order; "200" and "201"
\* with or without a JSON schema
ResponseObjects ==
    { [i \in 1..Len(ks) |->
          Prop(ks[i], IF ks[i] \in bare THEN BareResponse ELSE JsonResponse(ks[i]))] :
        ks \in StatusSeqs, bare \in SUBSET {"200", "201"} }
    \cup { <<Prop("200", TextResponse), Prop("201", JsonResponse("201"))>>,
           <<Prop("200", SchemalessResponse), Prop("204", JsonResponse("204"))>> }

cId    == <<"i","d">>
cSlug  == <<"s","l","u","g">>
cPetId == <<"p","e","t","-","i","d">>
cLimit == <<"l","i","m","i","t">>
cQ     == <<"q">>
ParamPool ==
    { [name |-> cId, in |-> "path", required |-> TRUE, schema |-> IntT],
      [name |-> cSlug, in |-> "path", required |-> TRUE],
      [name |-> cLimit, in |-> "query", schema |-> IntT],
      [name |-> cQ, in |-> "query", required |-> TRUE],
      [name |-> <<"p","a","g","e">>, in |-> "query", required |-> FALSE],
      [name |-> <<"t","r","a","c","e">>, in |-> "header", required |-> TRUE],
      [name |-> <<"s","i","d">>, in |-> "cookie"] }
ParamSeqs ==
    UNION { { ps \in [1..n -> ParamPool] : \A i, j \in 1..n : i # j => ps[i] # ps[j] }
            : n \in 0..MaxParams }

JsonBody(s) == [content |-> <<Prop(JsonMedia, [schema |-> s])>>]
RequestBodies ==
    { JsonBody(StrT), JsonBody(RefTo(nPet)), JsonBody(OneOfT(<<>>)),
      JsonBody([type |-> "string", enum |-> <<>>]),
      [content |-> <<Prop("text/plain", [schema |-> StrT])>>],
      [content |-> <<Prop(JsonMedia, NoKeys)>>] }

PlainEndpoint ==
    [method |-> "get", path |-> pathA, operationId |-> listB, parameters |-> <<>>,
     responses |-> <<Prop("200", BareResponse)>>]
With(e, k, v) == (k :> v) @@ e

ResponseEndpoints == { With(PlainEndpoint, "responses", r) : r \in ResponseObjects }
ParamEndpoints == { With(PlainEndpoint, "parameters", ps) : ps \in ParamSeqs }
BodyEndpoints ==
    { With(With(With(PlainEndpoint, "method", "post"), "requestBody", b), "parameters", ps) :
        b \in RequestBodies,
        ps \in { <<>>, <<[name |-> cId, in |-> "path", required |-> TRUE]>>,
                 <<[name |-> cQ, in |-> "query"]>> } }

pathTwo   == <<"/","a","/","{","i","d","}","/","c","/","{","s","l","u","g","}">>
pathDash  == <<"/","p","/","{","p","e","t","-","i","d","}">>
pathTwice == <<"/","a","/","{","i","d","}","/","{","i","d","}">>
UrlPaths == {pathB, pathA, pathTwo, pathDash, pathTwice}
PathParam(n) == [name |-> n, in |-> "path", required |-> TRUE]
UrlEndpoints ==
    { With(With(PlainEndpoint, "path", p), "parameters", pp \o qq) :
        p \in UrlPaths,
        pp \in { <<>>, <<PathParam(cId)>>, <<PathParam(cId), PathParam(cSlug)>>,
                 <<PathParam(cPetId)>> },
        qq \in { <<>>, <<[name |-> cLimit, in |-> "query"]>>,
                 <<[name |-> cLimit, in |-> "query"], [name |-> cQ, in |-> "query", required |-> TRUE]>> } }

MethodEndpoints == ResponseEndpoints \cup ParamEndpoints \cup BodyEndpoints \cup UrlEndpoints

\* the arguments of a call
ParamsArgs ==
    { <<Prop(cId, <<"7">>)>>,
      <<Prop(cId, <<"7">>), Prop(cSlug, <<"x">>)>>,
      <<Prop(cPetId, <<"9">>)>> }
QueryArgs ==
    { <<>>, <<NoKeys>>, << <<Prop(cLimit, <<"5">>)>> >>,
      << <<Prop(cQ, <<"z">>), Prop(cLimit, <<>>)>> >> }

\* the endpoint to emit a method for is drawn; nothing has run yet
InitMethod ==
    /\ spec = MethodRegistryDoc
    /\ schemas = loadSchemas(spec)
    /\ op = "new"
    /\ arg \in MethodEndpoints
    /\ ret = <<>>
    /\ NewClient

GenerateEndpointMethod ==
    /\ op = "new"
    /\ op' = "generateEndpointMethod"
    /\ ret' = generateEndpointMethod(schemas, arg)
    /\ UNCHANGED <<spec, schemas, arg, clientVars, callVars, logVars>>

\* the emitted method is called: its URL and query string are built
BuildUrl(params, queryArg) ==
    /\ op = "generateEndpointMethod"
    /\ ret.ok
    /\ op' = "call"
    /\ ret' = [method |-> ret, params |-> params, query |-> queryArg,
               finalUrl |-> finalUrl(ret, params, queryArg)]
    /\ UNCHANGED <<spec, schemas, arg, clientVars, callVars, logVars>>

NextMethod ==
    \/ GenerateEndpointMethod
    \/ \E params \in ParamsArgs, queryArg \in QueryArgs : BuildUrl(params, queryArg)

SpecMethod == InitMethod /\ [][NextMethod]_vars

(***************************************************************************)
(* Claims about an emitted endpoint method (SpecMethod)                    *)
(***************************************************************************)
Emitted == op = "generateEndpointMethod" /\ ret.ok
Declared(k) == \E i \in 1..Len(arg.responses) : arg.responses[i].key = k
ResponseAt(k) ==
    arg.responses[CHOOSE i \in 1..Len(arg.responses) : arg.responses[i].key = k].value
SuccessOrder == <<"200", "201", "204">>
\* the first of "200", "201", "204" the endpoint declares, as a list
FirstSuccess ==
    LET present == SelectSeq(SuccessOrder, Declared)
    IN IF present = <<>> THEN <<>> ELSE <<Head(present)>>
CarriesJsonSchema(r) ==
    /\ "content" \in DOMAIN r
    /\ \E i \in 1..Len(r.content) :
           r.content[i].key = "application/json" /\ "schema" \in DOMAIN r.content[i].value
JsonSchemaIn(r) ==
    r.content[CHOOSE i \in 1..Len(r.content) : r.content[i].key = "application/json"].value.schema
TypeParam(n) == ret.typeParams[CHOOSE i \in 1..Len(ret.typeParams) : ret.typeParams[i].name = n]

\* C12: the success type of a method is synthesized from the JSON schema of
\* the first status present among "200", "201", "204"; a later status is
\* not consulted once an earlier one is present; when none is present, or
\* the chosen one has no JSON schema, the success type is unknown and the
\* method is still emitted.
C12_SuccessTypeSelection ==
    op = "generateEndpointMethod" =>
        /\ ret.ok
        /\ TypeParam("TResponse").default =
              IF FirstSuccess # <<>> /\ CarriesJsonSchema(ResponseAt(FirstSuccess[1]))
              THEN schemaToType(schemas, JsonSchemaIn(ResponseAt(FirstSuccess[1])), {}).text
              ELSE <<"unknown">>

\* "201" with a JSON schema is declared before "200" without one, and the
\* success type is unknown
C12_Witness ==
    /\ Emitted
    /\ Len(arg.responses) = 2
    /\ arg.responses[1].key = "201" /\ CarriesJsonSchema(arg.responses[1].value)
    /\ arg.responses[2].key = "200" /\ ~CarriesJsonSchema(arg.responses[2].value)
    /\ TypeParam("TResponse").default = <<"unknown">>

\* the numeric response statuses of the inputs, by key
StatusNumber ==
    ("200" :> 200) @@ ("201" :> 201) @@ ("204" :> 204) @@ ("399" :> 399)
    @@ ("400" :> 400) @@ ("404" :> 404) @@ ("500" :> 500)
\* the statuses >= 400 the endpoint declares
DeclaredErrors ==
    { StatusNumber[k] : k \in { j \in DOMAIN StatusNumber : Declared(j) /\ StatusNumber[j] >= 400 } }
\* the literals of a ' | ' union: every other token, the rest being ' | '
UnionLiterals(text) == { text[i] : i \in { j \in 1..Len(text) : j % 2 = 1 } }
IsUnion(text) ==
    /\ Len(text) % 2 = 1
    /\ \A i \in 1..Len(text) : i % 2 = 0 => text[i] = " | "

\* C13: the return type carries a second type parameter exactly when the
\* endpoint declares a response status >= 400; it is the bare literal of
\* the status when there is one and the ' | ' union of all of them, each
\* once, when there are several; no status below 400 appears in it.
C13_ErrorStatusAggregation ==
    Emitted =>
        /\ Len(ret.returnArgs) = IF DeclaredErrors = {} THEN 1 ELSE 2
        /\ ret.returnArgs[1] = <<"TResponse">>
        /\ DeclaredErrors # {} =>
              /\ IsUnion(ret.returnArgs[2])
              /\ Len(ret.returnArgs[2]) = 2 * Cardinality(DeclaredErrors) - 1
              /\ UnionLiterals(ret.returnArgs[2]) = { ToString(n) : n \in DeclaredErrors }

\* responses declared as 500, 200, 404 give the error parameter 404 | 500
C13_Witness ==
    /\ Emitted
    /\ Len(arg.responses) = 3
    /\ arg.responses[1].key = "500"
    /\ arg.responses[2].key = "200"
    /\ arg.responses[3].key = "404"
    /\ ret.returnArgs = << <<"TResponse">>, <<"404", " | ", "500">> >>

Located(where) == { i \in 1..Len(arg.parameters) : arg.parameters[i].in = where }
ParamNames == [i \in 1..Len(ret.params) |-> ret.params[i].name]
SigIndex(n) == CHOOSE i \in 1..Len(ret.params) : ret.params[i].name = n
HasSig(n) == \E i \in 1..Len(ret.params) : ret.params[i].name = n
\* the properties a bundle type lists: one ': ' each (the parameter types of
\* the inputs are primitive)
BundleSize(text) == Cardinality({ i \in 1..Len(text) : text[i] = ": " })

\* C14: the signature lists, in this order, a path-parameter bundle iff the
\* Endpoint has a parameter located in path, then a query-parameter bundle
\* iff it has one located in query, optional exactly when no query
\* parameter is required; header and cookie parameters appear in neither.
C14_SignatureParameters ==
    Emitted =>
        /\ HasSig("params") <=> Located("path") # {}
        /\ HasSig("query") <=> Located("query") # {}
        /\ \A i \in 1..Len(ret.params) : ret.params[i].name \in {"params", "query", "body"}
        /\ (HasSig("params") /\ HasSig("query")) => SigIndex("params") < SigIndex("query")
        /\ (HasSig("params") /\ HasSig("body")) => SigIndex("params") < SigIndex("body")
        /\ (HasSig("query") /\ HasSig("body")) => SigIndex("query") < SigIndex("body")
        /\ HasSig("params") =>
              /\ ~ret.params[SigIndex("params")].optional
              /\ BundleSize(TypeParam("TParams").default) = Cardinality(Located("path"))
        /\ HasSig("query") =>
              /\ ret.params[SigIndex("query")].optional
                    <=> \A i \in Located("query") :
                            ~("required" \in DOMAIN arg.parameters[i] /\ arg.parameters[i].required)
              /\ BundleSize(ret.params[SigIndex("query")].type) = Cardinality(Located("query"))

\* a header parameter, an optional query parameter and a path parameter,
\* declared in that order, give the signature (params, query?)
C14_Witness ==
    /\ Emitted
    /\ Len(arg.parameters) = 3
    /\ arg.parameters[1].in = "header"
    /\ arg.parameters[2].in = "query" /\ "required" \notin DOMAIN arg.parameters[2]
    /\ arg.parameters[3].in = "path"
    /\ ParamNames = <<"params", "query">>
    /\ ret.params[2].optional

\* C15: the signature declares a body parameter if and only if the Endpoint
\* declares a request body, and the method body serialises `body` into the
\* request exactly when that parameter is declared.
C15_BodyParameter ==
    Emitted =>
        /\ HasSig("body") <=> "requestBody" \in DOMAIN arg
        /\ ret.body <=> HasSig("body")

\* the names of the {name} placeholders of a path template
PlaceholderNames(path) ==
    { SubSeq(path, i + 1, j - 1) :
        i \in { a \in 1..Len(path) : path[a] = "{" },
        j \in { b \in 1..Len(path) : path[b] = "}" } }
ProperNames(path) ==
    { n \in PlaceholderNames(path) :
        n # <<>> /\ \A i \in 1..Len(n) : n[i] \notin {"{", "}", "/"} }
DeclaredPathNames ==
    { arg.parameters[i].name : i \in { p \in 1..Len(arg.parameters) : arg.parameters[p].in = "path" } }
DeclaredQueryNames ==
    LET qs == SelectSeq(arg.parameters, LAMBDA p : p.in = "query")
    IN [i \in 1..Len(qs) |-> qs[i].name]
\* the declared query parameters a call supplies a value for, in declared
\* order, as name=value
PresentPairs ==
    IF ret.query = <<>> THEN <<>>
    ELSE LET names == SelectSeq(DeclaredQueryNames, LAMBDA n : MapHas(ret.query[1], n))
         IN [i \in 1..Len(names) |-> names[i] \o <<"=">> \o MapGet(ret.query[1], names[i])]
EndsWith(text, part) ==
    Len(part) <= Len(text) /\ SubSeq(text, Len(text) - Len(part) + 1, Len(text)) = part

\* C19: in the URL a call builds no {name} placeholder of the path template
\* remains and every name substituted is a declared path parameter; each
\* declared query parameter whose value is present is added to the query
\* string, the absent ones are omitted, and '?' is added only when the
\* query string is non-empty.
C19_UrlAndQueryConstruction ==
    op = "call" =>
        /\ \A n \in ProperNames(arg.path) :
               ~Contains(ret.finalUrl, <<"{">> \o n \o <<"}">>)
        /\ \A i \in 1..Len(ret.method.url) :
               "param" \in DOMAIN ret.method.url[i]
                   => ret.method.url[i].param \in DeclaredPathNames
        /\ Count(ret.finalUrl, "?") = IF PresentPairs = <<>> THEN 0 ELSE 1
        /\ PresentPairs # <<>> =>
               EndsWith(ret.finalUrl, <<"?">> \o join(PresentPairs, <<"&">>))
(***************************************************************************)
(* SpecGenerate: a generator over a whole document, then generate()        *)
(***************************************************************************)
PetStoreTitle == <<"P","e","t"," ","S","t","o","r","e"," ","A","P","I">>
TitleChars == {"p", "S", " ", "7"}
Titles == UNION { [1..n -> TitleChars] : n \in 0..MaxNameLen } \cup {PetStoreTitle}

\* documents that differ in their title only
TitleDocs == { [info |-> [title |-> t], paths |-> <<>>] : t \in Titles }

\* registries of none, one, two and three entries in different declared
\* orders, and one whose entry refers to itself
Registries ==
    { <<>>,
      <<Prop(nPet, PetSchema)>>,
      <<Prop(nB, BoolT), Prop(nPet, PetSchema)>>,
      <<Prop(nPet, PetSchema), Prop(nB, BoolT)>>,
      <<Prop(nC, StrT), Prop(nA, ArrT(RefTo(nC))), Prop(nB, NumT)>>,
      <<Prop(nA, ObjT(<<Prop("a", RefTo(nA))>>))>> }

\* paths objects of none, one and two paths; pathA and pathWord differ in
\* the braces of one segment only
pathWord == <<"/", "a", "/", "i", "d">>
PathSections ==
    {<<>>}
    \cup { <<Prop(pathA, <<Prop("get", PlainOp)>>), Prop(pathWord, <<Prop(m, PlainOp)>>)>> :
             m \in {"get", "post"} }
    \cup { <<Prop(pathA, it)>> : it \in OrderItems }
    \cup { <<Prop(pathB, i1), Prop(pathA, i2)>> : i1 \in SecondItems, i2 \in SecondItems }

StructureDocs ==
    { [info |-> [title |-> PetStoreTitle], paths |-> ps, schemas |-> r] :
        ps \in PathSections, r \in Registries }
    \cup { [info |-> [title |-> PetStoreTitle], paths |-> ps,
            servers |-> <<[url |-> "https://pets.example.org/v1"]>>] : ps \in PathSections }

\* the document of the end-to-end scenario: schema Pet and GET /pets/{petId}
pathPet == <<"/","p","e","t","s","/","{","p","e","t","I","d","}">>
cPetIdParam == <<"p","e","t","I","d">>
PetOperation ==
    [ parameters |-> <<[name |-> cPetIdParam, in |-> "path", required |-> TRUE, schema |-> IntT]>>,
      responses |->
          << Prop("200", [description |-> "A pet",
                          content |-> <<Prop(JsonMedia, [schema |-> RefTo(nPet)])>>]),
             Prop("404", [description |-> "Not found"]) >> ]
PetDoc ==
    [ info |-> [title |-> PetStoreTitle],
      paths |-> <<Prop(pathPet, <<Prop("get", PetOperation)>>)>>,
      schemas |-> <<Prop(nPet, PetSchema)>> ]

GenerateDocs == TitleDocs \cup StructureDocs \cup {PetDoc}

\* the document is drawn and parsed; nothing has been generated yet
InitGenerate ==
    /\ spec \in GenerateDocs
    /\ schemas = loadSchemas(spec)
    /\ op = "new"
    /\ arg = <<>>
    /\ ret = <<>>
    /\ NewClient

Generate ==
    /\ op = "new"
    /\ op' = "generate"
    /\ ret' = generate(spec)
    /\ UNCHANGED <<spec, schemas, arg, clientVars, callVars, logVars>>

NextGenerate == Generate

SpecGenerate == InitGenerate /\ [][NextGenerate]_vars
(***************************************************************************)
(* Claims about the emitted file (SpecGenerate)                            *)
(***************************************************************************)
Generated == op = "generate" /\ ret.ok
Declarations(kind) == SelectSeq(ret.code, LAMBDA d : d.kind = kind)
Alphanumerics ==
    { LowerCase[i] : i \in 1..Len(LowerCase) } \cup { UpperCase[i] : i \in 1..Len(UpperCase) }
    \cup { Digits[i] : i \in 1..Len(Digits) }
Stripped(title) == SelectSeq(title, LAMBDA c : c \in Alphanumerics)
Uppercased(c) == IF IsIn(LowerCase, c) THEN UpperCase[IndexIn(LowerCase, c)] ELSE c

\* C20: for every document title the name the client class is declared with
\* is the title's alphanumeric characters in their order, the first of them
\* uppercased, followed by "Client"; the title "Pet Store API" gives
\* PetStoreAPIClient.
C20_ClassName ==
    Generated =>
        LET kept == Stripped(spec.info.title)
            name == Declarations("export class")[1].name
        IN /\ Len(name) = Len(kept) + 6
           /\ SubSeq(name, Len(kept) + 1, Len(name)) = <<"C","l","i","e","n","t">>
           /\ \A i \in 1..Len(kept) :
                  name[i] = IF i = 1 THEN Uppercased(kept[1]) ELSE kept[i]
           /\ spec.info.title = PetStoreTitle =>
                  name = <<"P","e","t","S","t","o","r","e","A","P","I","C","l","i","e","n","t">>

\* the title "Pet Store API" has been given its class name
C20_Witness ==
    /\ Generated
    /\ spec.info.title = PetStoreTitle
    /\ Declarations("export class")[1].name
           = <<"P","e","t","S","t","o","r","e","A","P","I","C","l","i","e","n","t">>
\* the path an emitted method's URL template was written from, and the
\* Endpoint list the methods were emitted for
UrlText(url) ==
    concat([i \in 1..Len(url) |->
               IF "lit" \in DOMAIN url[i] THEN <<url[i].lit>>
               ELSE <<"{">> \o url[i].param \o <<"}">>])
EndpointList == extractEndpoints(spec)
TypeCount == Len(SharedTypes) + Len(schemas)

\* C17: what generate() returns is, in this order, the shared result and
\* interceptor declarations, one exported type alias per registry entry in
\* the registry's order, one client class with exactly one method per
\* Endpoint in the Endpoint list's order, and a trailing export of the
\* client's name, and nothing else.
C17_OutputPartition ==
    Generated =>
        LET code == ret.code
            class == code[TypeCount + 1]
        IN /\ Len(code) = TypeCount + 2
           /\ \A i \in 1..Len(SharedTypes) :
                  code[i].kind = "export type" /\ code[i].name = SharedTypes[i]
           /\ \A i \in 1..Len(schemas) :
                  /\ code[Len(SharedTypes) + i].kind = "export type"
                  /\ code[Len(SharedTypes) + i].name = schemas[i].key
           /\ class.kind = "export class"
           /\ Len(class.methods) = Len(EndpointList)
           /\ \A j \in 1..Len(EndpointList) :
                  /\ toLowerCase(class.methods[j].httpMethod) = methodChars(EndpointList[j].method)
                  /\ UrlText(class.methods[j].url) = EndpointList[j].path
           /\ code[TypeCount + 2] = [kind |-> "export default", name |-> class.name]

\* a file has been generated from a registry of three entries and a document
\* with operations under two paths
C17_Witness ==
    /\ Generated
    /\ Len(schemas) = 3
    /\ Len(spec.paths) = 2
    /\ Len(EndpointList) >= 3
    /\ Len(Declarations("export type")) = Len(SharedTypes) + 3
    /\ Len(Declarations("export class")[1].methods) = Len(EndpointList)
\* the Pet scenario's declarations in the generated file
PetAlias == Declarations("export type")[Len(SharedTypes) + 1]
PetMethod == Declarations("export class")[1].methods[1]
PetResponseParam ==
    PetMethod.typeParams[CHOOSE i \in 1..Len(PetMethod.typeParams) :
                             PetMethod.typeParams[i].name = "TResponse"]
PetScenarioShape ==
    /\ PetAlias.name = nPet
    /\ Count(PetAlias.text, "  ") = 3
    /\ SelectSeq(PetAlias.text, LAMBDA t : t \in {"id", "name", "status"})
           = <<"id", "name", "status">>
    /\ Len(EndpointList) = 1
    /\ paramsIn(EndpointList[1].parameters, "path")
           = <<[name |-> cPetIdParam, in |-> "path", required |-> TRUE, schema |-> IntT]>>
    /\ Len(Declarations("export class")[1].methods) = 1
    /\ PetMethod.returnArgs = << <<"TResponse">>, <<"404">> >>

\* C18: for the document with the registry schema Pet and GET /pets/{petId}
\* answering 200 with a reference to Pet and 404, the generated file declares
\* the type Pet with the properties id, name, status in that order, the
\* Endpoint list has one Endpoint with the one path parameter petId, and the
\* method's return type is the result union over the response type and the
\* error literal 404, the response type being the name Pet and not a copy of
\* the structure of Pet.
C18_PetScenario ==
    (Generated /\ spec = PetDoc) =>
        /\ PetScenarioShape
        /\ PetResponseParam.default = nPet
        /\ PetResponseParam.default # PetAlias.text
(***************************************************************************)
(* SpecShape: schemaToType over objects, enumerations and combinators      *)
(* that differ in their declared order and their required names            *)
(***************************************************************************)
\* the sequences of up to MaxKeys distinct elements of a set
DistinctSeqs(S) ==
    UNION { { q \in [1..n -> S] : \A i, j \in 1..n : i # j => q[i] # q[j] } : n \in 0..MaxKeys }

PropertyNames == {"x", "y", "b", "2", "10"}
propertySchema(k) ==
    CASE k = "x" -> IntT
      [] k = "y" -> StrT
      [] k = "b" -> ArrT(BoolT)
      [] k = "2" -> RefTo(nC)
      [] OTHER   -> MapT
ShapeObjects ==
    { [i \in 1..Len(ks) |-> Prop(ks[i], propertySchema(ks[i]))] : ks \in DistinctSeqs(PropertyNames) }
ShapeMembers == {StrT, NumT, BoolT, MapT, RefTo(nC)}
xy == <<Prop("x", IntT), Prop("y", StrT)>>
ShapeInputs ==
    { ObjT(ps) : ps \in ShapeObjects }
    \cup { ObjReqT(ps, req) : ps \in ShapeObjects, req \in SUBSET {"x", "2", "z"} }
    \cup { [type |-> "string", enum |-> vs] : vs \in DistinctSeqs({"a", "b", "c"}) }
    \cup { OneOfT(ms) : ms \in DistinctSeqs(ShapeMembers) }
    \cup { AnyOfT(ms) : ms \in DistinctSeqs(ShapeMembers) }
    \cup { AllOfT(ms) : ms \in DistinctSeqs(ShapeMembers) }

\* the schema to synthesize is drawn; nothing has run yet
InitShape ==
    /\ spec \in { [paths |-> <<>>], [paths |-> <<>>, schemas |-> <<Prop(nC, ObjReqT(xy, {"x"}))>>] }
    /\ schemas = loadSchemas(spec)
    /\ op = "new"
    /\ arg \in { [schema |-> s, visited |-> {}] : s \in ShapeInputs }
    /\ ret = <<>>
    /\ NewClient

SynthesizeShape ==
    /\ op = "new"
    /\ op' = "schemaToType"
    /\ ret' = schemaToType(schemas, arg.schema, arg.visited)
    /\ UNCHANGED <<spec, schemas, arg, clientVars, callVars, logVars>>

NextShape == SynthesizeShape

SpecShape == InitShape /\ [][NextShape]_vars

(***************************************************************************)
(* Claims about properties and order in the synthesizer (SpecShape)        *)
(***************************************************************************)
SynthesizedObject == op = "schemaToType" /\ ret.ok /\ IsObjectWithProps(arg.schema)
RequiredNames == IF "required" \in DOMAIN arg.schema THEN arg.schema.required ELSE {}
PositionOf(text, token) == CHOOSE i \in 1..Len(text) : text[i] = token

\* C22: in the expression synthesized for an object schema with declared
\* properties, a property (one whose name occurs once in the expression) is
\* written with the optionality marker if and only if its name is absent
\* from requiredNames, a missing requiredNames making every property
\* optional; for properties x, y with requiredNames {x}, y is optional and x
\* is not.
C22_RequiredVsOptional ==
    SynthesizedObject =>
        \A i \in 1..Len(arg.schema.properties) :
            LET k == arg.schema.properties[i].key
                p == PositionOf(ret.text, k)
            IN Count(ret.text, k) = 1 =>
                 /\ ret.text[p - 1] = "  "
                 /\ k \notin RequiredNames => ret.text[p + 1] = "?" /\ ret.text[p + 2] = ": "
                 /\ k \in RequiredNames => ret.text[p + 1] = ": "

\* the object with properties x, y and requiredNames {x} was synthesized:
\* x is mandatory and y optional
C22_Witness ==
    /\ op = "schemaToType"
    /\ arg.schema = ObjReqT(xy, {"x"})
    /\ Contains(ret.text, <<"  ", "x", ": ", "number", ";">>)
    /\ Contains(ret.text, <<"  ", "y", "?", ": ", "string", ";">>)
\* the expressions of a combinator's members, each synthesized on its own
MemberTexts(ms) == [i \in 1..Len(ms) |-> schemaToType(schemas, ms[i], {}).text]
Shaped == op = "schemaToType" /\ ret.ok
OnceEach(text, ks) == \A i \in 1..Len(ks) : Count(text, ks[i].key) = 1

\* enum literals and combinator members are in declared order, joined by the
\* union operator (OneOf, AnyOf, enum) or the intersection operator (AllOf)
ListsInDeclaredOrder ==
    /\ (Shaped /\ "enum" \in DOMAIN arg.schema) =>
           ret.text = join([i \in 1..Len(arg.schema.enum) |->
                               <<"\"", arg.schema.enum[i], "\"">>], <<" | ">>)
    /\ (Shaped /\ "oneOf" \in DOMAIN arg.schema) =>
           ret.text = join(MemberTexts(arg.schema.oneOf), <<" | ">>)
    /\ (Shaped /\ "anyOf" \in DOMAIN arg.schema) =>
           ret.text = join(MemberTexts(arg.schema.anyOf), <<" | ">>)
    /\ (Shaped /\ "allOf" \in DOMAIN arg.schema) =>
           ret.text = join(MemberTexts(arg.schema.allOf), <<" & ">>)

\* the properties of an object are in declared order
PropertiesInDeclaredOrder ==
    (SynthesizedObject /\ OnceEach(ret.text, arg.schema.properties)) =>
        \A i, j \in 1..Len(arg.schema.properties) :
            i < j => PositionOf(ret.text, arg.schema.properties[i].key)
                         < PositionOf(ret.text, arg.schema.properties[j].key)

\* C23: enum literals, object properties and combinator members appear in
\* the synthesized expression in exactly the order the input declares them,
\* never sorted or otherwise reordered; OneOf and AnyOf members are joined by
\* the union operator and AllOf members by the intersection operator.
C23_DeclaredOrder == ListsInDeclaredOrder /\ PropertiesInDeclaredOrder
(***************************************************************************)
(* Claims about one call of the emitted request path (SpecClient)          *)
(***************************************************************************)
\* the failures of a network attempt that received no ok response
AttemptFailures ==
    {PlainError("Failed to fetch")} \cup { StatusError(o, "API error") : o \in HttpErrorStatuses }

\* C25: within one call, once a network attempt has received an ok response
\* no further network attempt is made, even if parsing the body or a
\* response interceptor then fails: every attempt after the first follows an
\* attempt that failed without an ok response.
C25_NoResendAfterSuccess ==
    [][(Len(sent') > Len(sent) /\ sent # <<>>) => raised \in AttemptFailures]_vars

\* C26: in one call every registered request interceptor is invoked exactly
\* once, all of them before the first network attempt; every retry sends the
\* same intercepted request again without invoking them again; when a
\* request interceptor fails no network attempt is made.
C26_RequestInterceptorsOncePerCall ==
    /\ Len(reqCalls) <= Len(requestInterceptors)
    /\ \A k \in 1..Len(reqCalls) : reqCalls[k].id = requestInterceptors[k]
    /\ sent # <<>> =>
          /\ Len(reqCalls) = Len(requestInterceptors)
          /\ \A j \in 1..Len(sent) : sent[j] = request
    /\ (Finished /\ Len(reqCalls) < Len(requestInterceptors)) => sent = <<>>

\* a call through two request interceptors was sent three times
C26_Witness ==
    /\ Len(requestInterceptors) = 2
    /\ Len(reqCalls) = 2
    /\ Len(sent) = 3
    /\ sent[3] = sent[1]
    /\ sent[1].marks = <<requestInterceptors[1], requestInterceptors[2]>>

\* the delays setRetryConfig is given when it is given one
ExplicitDelays == { d[1] : d \in RetryDelays \ {<<>>} }
Others(changed) ==
    /\ "apiKey" \notin changed => apiKey' = apiKey
    /\ "bearerToken" \notin changed => bearerToken' = bearerToken
    /\ "requestInterceptors" \notin changed => requestInterceptors' = requestInterceptors
    /\ "responseInterceptors" \notin changed => responseInterceptors' = responseInterceptors
    /\ "maxRetries" \notin changed => maxRetries' = maxRetries
    /\ "retryDelay" \notin changed => retryDelay' = retryDelay

\* C27: a configuration operation changes only the state it names: a step
\* that changes the API key, the bearer token or an interceptor list changes
\* no other field, an interceptor list changes by one entry appended after
\* the earlier ones, a step that changes the retry count changes no field
\* but the retry settings, and the base retry delay changes only to a delay
\* given to setRetryConfig: a call with the delay omitted leaves it as it was.
C27_ConfigurationFrame ==
    [][ /\ apiKey' # apiKey => Others({"apiKey"})
        /\ bearerToken' # bearerToken => Others({"bearerToken"})
        /\ requestInterceptors' # requestInterceptors =>
              /\ Others({"requestInterceptors"})
              /\ SubSeq(requestInterceptors', 1, Len(requestInterceptors)) = requestInterceptors
              /\ Len(requestInterceptors') = Len(requestInterceptors) + 1
        /\ responseInterceptors' # responseInterceptors =>
              /\ Others({"responseInterceptors"})
              /\ SubSeq(responseInterceptors', 1, Len(responseInterceptors)) = responseInterceptors
              /\ Len(responseInterceptors') = Len(responseInterceptors) + 1
        /\ maxRetries' # maxRetries => Others({"maxRetries", "retryDelay"})
        /\ retryDelay' # retryDelay => retryDelay' \in ExplicitDelays ]_vars
(***************************************************************************)
(* Claims about method names in one client (SpecGenerate)                  *)
(***************************************************************************)
EmittedMethods == Declarations("export class")[1].methods

\* C30: in one generated client no two Endpoints receive the same method
\* name; the (path, method) pairs of a document are distinct, being the keys
\* of its paths object and of its path items.
C30_UniqueMethodNames ==
    Generated =>
        \A i, j \in 1..Len(EmittedMethods) :
            i # j => EmittedMethods[i].name # EmittedMethods[j].name
(***************************************************************************)
(* SpecIndent: one generator, generate() called again and again.  arg is   *)
(* the generator object, ret the results of the calls so far.              *)
(***************************************************************************)
IndentOps ==
    { PlainOp,
      [PlainOp EXCEPT !.responses = <<Prop("200", JsonResponse("200"))>>],
      PlainOp @@ [parameters |-> <<[name |-> cLimit, in |-> "query"]>>],
      PlainOp @@ [parameters |-> <<PathParam(cId), [name |-> cLimit, in |-> "query"],
                                   [name |-> cQ, in |-> "query", required |-> TRUE]>>],
      PlainOp @@ [requestBody |-> JsonBody(StrT)],
      PlainOp @@ [requestBody |-> [ref |-> <<"#/components/requestBodies/", "B">>]] }
IndentItems ==
    {<<>>}
    \cup { <<Prop(k, o)>> : k \in {"get", "post"}, o \in IndentOps }
    \cup { <<Prop("post", o1), Prop("get", o2)>> : o1 \in IndentOps, o2 \in IndentOps }
IndentDocs ==
    { [info |-> [title |-> PetStoreTitle], paths |-> <<Prop(pathA, it)>>,
       schemas |-> <<Prop(nB, BoolT)>>] : it \in IndentItems }
    \cup { [info |-> [title |-> PetStoreTitle], paths |-> <<Prop(pathA, <<Prop("get", PlainOp)>>)>>,
            schemas |-> <<Prop(nA, ObjT(<<Prop("a", RefTo(nA))>>))>>] }

\* `private indentLevel = 0`
InitIndent ==
    /\ spec \in IndentDocs
    /\ schemas = loadSchemas(spec)
    /\ op = "new"
    /\ arg = [indentLevel |-> 0]
    /\ ret = <<>>
    /\ NewClient

\* one call: the counter is left where the writing left it
Called(result, w) ==
    /\ arg' = [indentLevel |-> w.indentLevel]
    /\ ret' = Append(ret, [ok |-> result.ok, before |-> arg.indentLevel, lines |-> w.lines])

GenerateAgain ==
    /\ Len(ret) < MaxCalls
    /\ op' = "generate"
    /\ Called(generate(spec), written(generateOps(spec), arg.indentLevel))
    /\ UNCHANGED <<spec, schemas, clientVars, callVars, logVars>>

NextIndent == GenerateAgain

SpecIndent == InitIndent /\ [][NextIndent]_vars

(***************************************************************************)
(* Claims about the indentation counter (SpecIndent)                       *)
(***************************************************************************)
\* the counter after the k-th call
LevelAfter(k) == IF k < Len(ret) THEN ret[k + 1].before ELSE arg.indentLevel

\* C28: indentLevel is 0 before and after every completed generate() call,
\* every generateEndpointMethod call leaves it at the value it found, and
\* the calls of generate() on one generator return identical text.
C28_IndentBalanced ==
    /\ \A k \in 1..Len(ret) :
          ret[k].ok => /\ ret[k].before = 0
                       /\ LevelAfter(k) = 0
                       /\ ret[k].lines = ret[1].lines
    /\ \A i \in 1..Len(EndpointList) : \A level \in 0..MaxCalls :
          written(generateEndpointMethodOps(EndpointList[i]), level).indentLevel = level

\* generate() has completed three times for a document with two endpoints,
\* one of them with query parameters and one with a request body
C28_Witness ==
    /\ Len(ret) = 3
    /\ ret[3].ok
    /\ Len(EndpointList) = 2
    /\ \E i \in 1..2 : paramsIn(EndpointList[i].parameters, "query") # <<>>
    /\ \E i \in 1..2 : "requestBody" \in DOMAIN EndpointList[i]
    /\ ret[3].lines = ret[1].lines
    /\ arg.indentLevel = 0
(***************************************************************************)
(* SpecArtifacts: generateClientArtifacts applied to a document and an     *)
(* options object.                                                         *)
(***************************************************************************)
getB == <<"g","e","t","B">>
ArtifactOps ==
    { PlainOp,
      PlainOp @@ [operationId |-> listB, summary |-> <<"L","i","s","t">>],
      PlainOp @@ [operationId |-> getB, requestBody |-> JsonBody(StrT),
                  parameters |-> <<PathParam(cId), [name |-> cLimit, in |-> "query"],
                                   [name |-> cQ, in |-> "query"],
                                   [name |-> cSlug, in |-> "query"]>>] }
ArtifactMethods == <<"get", "post", "put", "delete">>
ArtifactItems ==
    UNION { { [i \in 1..n |-> Prop(ArtifactMethods[i], os[i])] : os \in [1..n -> ArtifactOps] }
            : n \in 0..Len(ArtifactMethods) }
ArtifactDocs ==
    { [info |-> [title |-> PetStoreTitle], paths |-> <<Prop(pathA, it)>> \o more]
        : it \in ArtifactItems,
          more \in { <<>>, <<Prop(pathB, <<Prop("get", PlainOp)>>)>> } }
    \cup { [info |-> [title |-> <<"a","p","i">>],
            paths |-> <<Prop(pathB, <<Prop("get", PlainOp)>>)>>],
           [info |-> [title |-> PetStoreTitle],
            paths |-> <<Prop(pathB, <<Prop("get", PlainOp)>>)>>,
            schemas |-> <<Prop(nA, ObjT(<<Prop("a", RefTo(nA))>>))>>] }
ArtifactOptions ==
    { NoKeys, [includeExample |-> "true"], [includeExample |-> "false"],
      [includeExample |-> "undefined"] }

InitArtifacts ==
    /\ spec \in ArtifactDocs
    /\ schemas = loadSchemas(spec)
    /\ op = "new"
    /\ arg \in ArtifactOptions
    /\ ret = <<>>
    /\ NewClient

GenerateArtifacts ==
    /\ op = "new"
    /\ op' = "artifacts"
    /\ ret' = generateClientArtifacts(spec, arg)
    /\ UNCHANGED <<spec, schemas, arg, clientVars, callVars, logVars>>

NextArtifacts == GenerateArtifacts

SpecArtifacts == InitArtifacts /\ [][NextArtifacts]_vars

(***************************************************************************)
(* Claims about the artifacts (SpecArtifacts)                              *)
(***************************************************************************)
ArtifactsReturned == op = "artifacts" /\ ret.ok
ClientClasses == SelectSeq(ret.client, LAMBDA d : d.kind = "export class")
ExampleWanted == ~("includeExample" \in DOMAIN arg /\ arg.includeExample = "false")

\* C21: the client declares one class, named by the returned className, and
\* its last declaration exports that name; the example is returned exactly
\* when includeExample is not false; it instantiates the className and
\* calls, for the first min(3, number of Endpoints) Endpoints in list
\* order, the method the client emits for that Endpoint, by the same name.
C21_ArtifactNames ==
    ArtifactsReturned =>
        /\ Len(ClientClasses) = 1
        /\ ClientClasses[1].name = ret.className
        /\ ret.client[Len(ret.client)] = [kind |-> "export default", name |-> ret.className]
        /\ ("example" \in DOMAIN ret) <=> ExampleWanted
        /\ "example" \in DOMAIN ret =>
              LET calls == ret.example.calls
                  n == Len(ret.endpoints)
              IN /\ ret.example.instantiates = ret.className
                 /\ Len(calls) = (IF n < 3 THEN n ELSE 3)
                 /\ n = Len(ClientClasses[1].methods)
                 /\ \A i \in 1..Len(calls) :
                       /\ calls[i].name = ClientClasses[1].methods[i].name
                       /\ calls[i].name = sanitizeMethodName(ret.endpoints[i].operationId)

\* artifacts with an example have been returned for a document of five
\* Endpoints whose operationIds hold capitals
C21_Witness ==
    /\ ArtifactsReturned
    /\ "example" \in DOMAIN ret
    /\ Len(ret.endpoints) = 5
    /\ Len(ret.example.calls) = 3
    /\ ret.endpoints[1].operationId = listB
    /\ ret.example.calls[1].name = <<"l","i","s","t","_","b">>
    /\ ret.example.instantiates = <<"P","e","t","S","t","o","r","e","A","P","I","C","l","i","e","n","t">>
(***************************************************************************)
(* SpecCli: one run of the command line.  spec is the parsed content of    *)
(* the input file, arg the arguments, ret the exit code and the files.     *)
(***************************************************************************)
InputFile == <<"a","p","i",".","j","s","o","n">>
OutputFiles ==
    { <<>>,
      <<"c",".","t","s">>,
      <<"t","m","p","/","c",".","t","s">>,
      <<"c",".","t","s","x">>,
      <<"c",".","j","s">>,
      <<"c","l","i","e","n","t">>,
      <<"c",".","T","S">> }
CliArgs == { <<>>, <<InputFile>> } \cup { <<InputFile, f>> : f \in OutputFiles }
CliDocs ==
    { d \in IndentDocs : Len(d.paths[1].value) <= 1 }

InitCli ==
    /\ spec \in CliDocs
    /\ schemas = loadSchemas(spec)
    /\ op = "new"
    /\ arg \in CliArgs
    /\ ret = [exit |-> 0, files |-> <<>>]
    /\ NewClient

RunCli ==
    /\ op = "new"
    /\ op' = "cli"
    /\ ret' = main(arg, spec, ret.files)
    /\ UNCHANGED <<spec, schemas, arg, clientVars, callVars, logVars>>

NextCli == RunCli

SpecCli == InitCli /\ [][NextCli]_vars

(***************************************************************************)
(* Claims about the command line (SpecCli)                                 *)
(***************************************************************************)
CliSucceeded == op = "cli" /\ ret.exit = 0

\* C29: after a successful run the example has been written to a path
\* other than the output path, and the output path holds the client text.
C29_OutputFilesDistinct ==
    CliSucceeded =>
        /\ Len(ret.files) = 2
        /\ ret.files[1].key = outputFileOf(arg)
        /\ ret.files[2].key # outputFileOf(arg)
        /\ MapGet(ret.files, outputFileOf(arg)) = generate(spec).code

\* the part of C29 that holds: an output file name that contains ".ts"
\* keeps the client text, the example standing beside it
C29_DotTsOutputKept ==
    CliSucceeded /\ replaceString(outputFileOf(arg), dotTs, <<>>) # outputFileOf(arg) =>
        /\ Len(ret.files) = 2
        /\ ret.files[2].key # outputFileOf(arg)
        /\ MapGet(ret.files, outputFileOf(arg)) = generate(spec).code
(***************************************************************************)
(* SpecPipeline: a parser is constructed over a document, and then any     *)
(* sequence of resolve, synthesize, build, generate and example calls is   *)
(* made on it.                                                             *)
(***************************************************************************)
AliasRegistry == <<Prop(nA, RefTo(nB)), Prop(nC, RefTo(nB)), Prop(nB, StrT)>>
PipelineRegistries ==
    { <<>>, AliasRegistry,
      <<Prop(nA, ObjT(<<Prop("a", RefTo(nA))>>))>>,
      <<Prop(nB, BoolT), Prop(nA, ArrT(RefTo(nB)))>> }
PipelineDocs ==
    { [info |-> [title |-> PetStoreTitle], paths |-> <<Prop(pathA, it)>>, schemas |-> reg]
        : it \in { <<>>, <<Prop("get", PlainOp)>>,
                   <<Prop("post", PlainOp @@ [requestBody |-> JsonBody(RefTo(nA))]),
                     Prop("get", PlainOp)>> },
          reg \in PipelineRegistries }
PipelineSchemas ==
    { StrT, RefTo(nA), RefTo(nB), RefTo(nPet),
      OneOfT(<<RefTo(nA), RefTo(nC)>>), OneOfT(<<RefTo(nB), RefTo(nB)>>),
      ArrT(RefTo(nA)), ObjT(<<Prop("x", RefTo(nA)), Prop("y", RefTo(nA))>>) }
PipelineVisited == { {}, {nB}, {nPet} }

\* nothing is loaded before the parser is constructed
InitPipeline ==
    /\ spec \in PipelineDocs
    /\ schemas = <<>>
    /\ op = "new"
    /\ arg = <<>>
    /\ ret = <<>>
    /\ NewClient

\* new OpenAPIParser(spec)
LoadSchemas ==
    /\ op = "new"
    /\ op' = "load"
    /\ schemas' = loadSchemas(spec)
    /\ UNCHANGED <<spec, arg, ret, clientVars, callVars, logVars>>

\* schemaToType(s, v); arg keeps the set that was passed, before and after
Synthesize(s, v) ==
    /\ op # "new"
    /\ op' = "synthesize"
    /\ arg' = [schema |-> s, visited |-> v, after |-> visitedAfterAt(schemas, s, v, 1)]
    /\ ret' = schemaToType(schemas, s, v)
    /\ UNCHANGED <<spec, schemas, clientVars, callVars, logVars>>

Resolve(s) ==
    /\ op # "new"
    /\ ResolveSchema(s)

BuildEndpoints ==
    /\ op # "new"
    /\ op' = "build"
    /\ arg' = <<>>
    /\ ret' = extractEndpoints(spec)
    /\ UNCHANGED <<spec, schemas, clientVars, callVars, logVars>>

GenerateClient ==
    /\ op # "new"
    /\ op' = "generate"
    /\ arg' = <<>>
    /\ ret' = generate(spec)
    /\ UNCHANGED <<spec, schemas, clientVars, callVars, logVars>>

GenerateExample ==
    /\ op # "new"
    /\ op' = "example"
    /\ arg' = <<>>
    /\ ret' = ExampleGenerator_generate(spec, generateClassName(spec))
    /\ UNCHANGED <<spec, schemas, clientVars, callVars, logVars>>

NextPipeline ==
    \/ LoadSchemas
    \/ \E s \in PipelineSchemas : Resolve(s)
    \/ \E s \in PipelineSchemas, v \in PipelineVisited : Synthesize(s, v)
    \/ BuildEndpoints
    \/ GenerateClient
    \/ GenerateExample

SpecPipeline == InitPipeline /\ [][NextPipeline]_vars

(***************************************************************************)
(* Claims about the pipeline (SpecPipeline)                                *)
(***************************************************************************)
\* the union members of a schema, each synthesized alone with the set the
\* union was given
MembersAlone(s, v) ==
    [i \in 1..Len(s.oneOf) |-> schemaToType(schemas, s.oneOf[i], v)]

\* C24: once the registry is loaded, no resolve, synthesize, build, generate
\* or example call changes its keys, their order or their schemas, nor the
\* document; a synthesize call leaves the visited set it was passed as it
\* was, so every member of a union is synthesized as it would be alone.
C24_RegistryImmutable ==
    [][ /\ spec' = spec
        /\ op # "new" => schemas' = schemas
        /\ op' = "synthesize" =>
              /\ arg'.after = arg'.visited
              /\ ("oneOf" \in DOMAIN arg'.schema /\ ret'.ok) =>
                    ret'.text = join(Texts(MembersAlone(arg'.schema, arg'.visited)), <<" | ">>)
      ]_vars

\* with A and C both naming B, the union of A and C has been synthesized
\* after a generate call: both members are B's type, and the registry is
\* the one that was loaded
C24_Witness ==
    /\ op = "synthesize"
    /\ schemas = AliasRegistry
    /\ schemas = loadSchemas(spec)
    /\ arg.schema = OneOfT(<<RefTo(nA), RefTo(nC)>>)
    /\ arg.visited = {}
    /\ arg.after = {}
    /\ ret = Ok(<<"string", " | ", "string">>)

====
